---- MODULE Spec2Model ----
(***************************************************************************)
(* PsychoPortal: the knowledge graph (psycho/knowledge), the per-turn      *)
(* interaction loop (psycho/agent/loop.py), the memory write               *)
(* (psycho/memory/manager.py) and the proactive scheduler                  *)
(* (psycho/proactive/scheduler.py), as state machines.                     *)
(*                                                                         *)
(* Confidence is fixed point: one unit is 0.0001, so 0.05 is 500 and 0.95  *)
(* is 9500; the mean merge_nodes takes is rounded down to a unit.  Time is *)
(* counted in whole days.  Node ids are positions in the insertion order   *)
(* of the graph (networkx keeps insertion order, and the code never        *)
(* removes a node).  access_count is not modelled: no operation reads it.  *)
(***************************************************************************)
EXTENDS Integers, Sequences, FiniteSets, TLC

VARIABLES
    nodes,      \* KnowledgeGraph._g nodes: sequence of KnowledgeNode records
    edges,      \* KnowledgeGraph._g edges: set of KnowledgeEdge records, one per (source_id, target_id)
    edgeLog,    \* the add_edge calls of the last operation, with the endpoints' deprecated flags at that moment
    now,        \* the clock, in days
    ops,        \* graph operations performed so far
    lastOp,     \* the last operation and what it returned
    turn,       \* the turn in flight in AgentLoop.process / stream_process
    stores,     \* writes per memory store for the turn in flight
    tasks,      \* background extraction tasks created so far
    ingest,     \* the background ingestion task
    reminders,  \* the reminders table
    sched,      \* ProactiveScheduler state
    short,      \* a ShortTermMemory object and its last call
    cal,        \* the calendar_events table and the scheduler built with a CalendarManager only
    session     \* the PsychoAgent process, the interactions table and the graph file across sessions

graphVars == <<nodes, edges, edgeLog, now, ops, lastOp>>
loopVars  == <<turn, stores, tasks>>
taskVars  == <<ingest>>
schedVars == <<reminders, sched>>
objVars   == <<short>>
calVars   == <<cal>>
sessionVars == <<session>>
\* what the operations of one component leave alone
notGraph == <<loopVars, schedVars, objVars, calVars, sessionVars>>
notLoop == <<ingest, schedVars, objVars, calVars, sessionVars>>
notSched == <<nodes, edges, edgeLog, ops, lastOp, ingest, loopVars, objVars, calVars, sessionVars>>
notObj == <<graphVars, loopVars, taskVars, schedVars, calVars, sessionVars>>
notCal == <<nodes, edges, edgeLog, ops, lastOp, loopVars, taskVars, schedVars, objVars, sessionVars>>
notSession == <<edgeLog, now, lastOp, loopVars, taskVars, schedVars, objVars, calVars>>

vars == <<nodes, edges, edgeLog, now, ops, lastOp, turn, stores, tasks, ingest, reminders, sched, short, cal, session>>

----------------------------------------------------------------------------
(* Bounds of the model *)

MaxNodes == 3
MaxOps == 3
MaxDays == 2
MaxConfOps == 5
MaxTurns == 2
MaxTokens == 2
MaxReminders == 1
MaxFairReminders == 2
MaxTime == 1
MaxCalendarTicks == 2
MaxMergeOps == 6
MaxShortTurns == 3
MaxShortAdds == 6
MaxEvents == 2
MaxCalTime == 6
MaxSessions == 2
MaxInteractions == 26
MaxSessionOps == 2

----------------------------------------------------------------------------
(* Program constants, in units of 0.0001 *)

CONF_MIN == 500
CONF_MAX == 9500
MIN_CONFIDENCE_THRESHOLD == 500
CONFIDENCE_USER_CONFIRM == 2000
CONFIDENCE_USER_CORRECT == -4000
CONFIDENCE_CONSISTENT == 500
CONFIDENCE_TIME_DECAY == 10
CONFIDENCE_USED_IN_RESPONSE == 300
UPSERT_REINFORCE == 300
DEPRECATE_DELTA == -4000
EDGE_REINFORCE_CONF == 300
EDGE_REINFORCE_WEIGHT == 1
SIMILARITY_THRESHOLD == 92
MAX_SHORT_TERM_MESSAGES == 20
MAX_NOTIFICATIONS == 50
SCHEMA_VERSION == 2
\* calendar times, in quarters of an hour
DEFAULT_REMINDER_MINUTES == 1
NEEDING_REMINDER_HOURS_AHEAD == 4
REFLECTION_LIMIT == 25

Max2(a, b) == IF a >= b THEN a ELSE b
Min2(a, b) == IF a <= b THEN a ELSE b

RECURSIVE AsSeq(_)
\* the members of a finite set of integers, in increasing order
AsSeq(S) ==
    IF S = {} THEN <<>>
    ELSE LET m == CHOOSE x \in S : \A y \in S : x <= y
         IN <<m>> \o AsSeq(S \ {m})

----------------------------------------------------------------------------
(* KnowledgeNode *)

\* the fields of the KnowledgeNode dataclass, and those without a default
NodeFields ==
    {"id", "type", "label", "display_label", "properties", "confidence", "created_at",
     "last_accessed", "last_updated", "access_count", "domain", "sources",
     "embedding_id", "deprecated", "deprecation_reason"}
RequiredNodeFields == {"id", "type", "label"}

\* KnowledgeNode(**keywords) raises TypeError for a keyword that is no field
\* and for a required field left out
KnowledgeNode_raises(keywords) ==
    \/ keywords \ NodeFields # {}
    \/ RequiredNodeFields \ keywords # {}

\* find_node_by_label without a type
NoType == "any"

\* KnowledgeNode.create: the confidence is stored as given, the three
\* timestamps are taken at construction.
create(type, label, confidence, t) ==
    [type |-> type, label |-> label, confidence |-> confidence,
     created_at |-> t, last_accessed |-> t, last_updated |-> t,
     deprecated |-> FALSE]

touch(n, t) == [n EXCEPT !.last_accessed = t]

update_confidence(n, delta, t) ==
    [n EXCEPT !.confidence = Max2(CONF_MIN, Min2(CONF_MAX, n.confidence + delta)),
              !.last_updated = t]

----------------------------------------------------------------------------
(* KnowledgeGraph: a graph value is [nodes, edges, log] *)

Graph(ns, es, lg) == [nodes |-> ns, edges |-> es, log |-> lg]

has_node(G, id) == id \in 1..Len(G.nodes)

\* get_node touches the node it returns
get_node(G, id) ==
    IF has_node(G, id)
    THEN [G EXCEPT !.nodes[id] = touch(@, now)]
    ELSE G

\* first node in insertion order with that label (and type, unless NoType); 0 when none.
\* Deprecated nodes are not skipped.
find_node_by_label(G, label, type) ==
    LET hits == {i \in 1..Len(G.nodes) :
                    /\ G.nodes[i].label = label
                    /\ (type = NoType \/ G.nodes[i].type = type)}
    IN IF hits = {} THEN 0 ELSE CHOOSE i \in hits : \A j \in hits : i <= j

\* upsert_node reinforcing an existing node by 0.01 instead of 0.03
upsert_node_weak(G, node) ==
    LET existing == find_node_by_label(G, node.label, node.type)
    IN IF existing # 0
       THEN [g  |-> [G EXCEPT !.nodes[existing] =
                        [update_confidence(@, 100, now) EXCEPT !.last_updated = now]],
             id |-> existing]
       ELSE [g  |-> [G EXCEPT !.nodes = Append(@, node)],
             id |-> Len(G.nodes) + 1]

\* upsert_node: [g |-> graph after, id |-> canonical id]
upsert_node(G, node) ==
    LET existing == find_node_by_label(G, node.label, node.type)
    IN IF existing # 0
       THEN [g  |-> [G EXCEPT !.nodes[existing] =
                        [update_confidence(@, UPSERT_REINFORCE, now) EXCEPT !.last_updated = now]],
             id |-> existing]
       ELSE [g  |-> [G EXCEPT !.nodes = Append(@, node)],
             id |-> Len(G.nodes) + 1]

deprecate_node(G, id) ==
    IF has_node(G, id)
    THEN [G EXCEPT !.nodes[id] =
            update_confidence([touch(@, now) EXCEPT !.deprecated = TRUE], DEPRECATE_DELTA, now)]
    ELSE G

KnowledgeEdge(src, tgt, type, confidence, weight) ==
    [source_id |-> src, target_id |-> tgt, type |-> type,
     confidence |-> confidence, weight |-> weight]

EdgesAt(G, src, tgt) == {e \in G.edges : e.source_id = src /\ e.target_id = tgt}

reinforce(e) ==
    [e EXCEPT !.weight = @ + EDGE_REINFORCE_WEIGHT,
              !.confidence = Min2(CONF_MAX, @ + EDGE_REINFORCE_CONF)]

LogEntry(G, e) ==
    [source_id |-> e.source_id, target_id |-> e.target_id, type |-> e.type,
     src_deprecated |-> G.nodes[e.source_id].deprecated,
     tgt_deprecated |-> G.nodes[e.target_id].deprecated]

\* upsert_edge whose add_edge keeps the edge the pair already had
upsert_edge_parallel(G, e) ==
    IF ~has_node(G, e.source_id) \/ ~has_node(G, e.target_id)
    THEN G
    ELSE LET old == EdgesAt(G, e.source_id, e.target_id)
         IN IF old # {} /\ (CHOOSE x \in old : TRUE).type = e.type
            THEN [G EXCEPT !.edges = (@ \ old) \cup {reinforce(CHOOSE x \in old : TRUE)}]
            ELSE [G EXCEPT !.edges = @ \cup {e},
                           !.log = @ \cup {LogEntry(G, e)}]

\* upsert_edge: nothing for a missing endpoint; reinforce an edge of the same
\* type; otherwise add_edge, which replaces whatever edge the pair had.
upsert_edge(G, e) ==
    IF ~has_node(G, e.source_id) \/ ~has_node(G, e.target_id)
    THEN G
    ELSE LET old == EdgesAt(G, e.source_id, e.target_id)
         IN IF old # {} /\ (CHOOSE x \in old : TRUE).type = e.type
            THEN [G EXCEPT !.edges = (@ \ old) \cup {reinforce(CHOOSE x \in old : TRUE)}]
            ELSE [G EXCEPT !.edges = (@ \ old) \cup {e},
                           !.log = @ \cup {LogEntry(G, e)}]

RECURSIVE UpsertEdges(_, _)
UpsertEdges(G, es) ==
    IF es = {} THEN G
    ELSE LET e == CHOOSE x \in es : TRUE
         IN UpsertEdges(upsert_edge(G, e), es \ {e})

RECURSIVE TouchAll(_, _)
TouchAll(G, ids) ==
    IF ids = {} THEN G
    ELSE LET i == CHOOSE x \in ids : TRUE
         IN TouchAll(get_node(G, i), ids \ {i})

Successors(G, id) == {e.target_id : e \in {x \in G.edges : x.source_id = id}}
Predecessors(G, id) == {e.source_id : e \in {x \in G.edges : x.target_id = id}}

\* get_edges_from without the test of the target's deprecated flag
get_edges_from_unfiltered(G, id) ==
    [g   |-> TouchAll(G, Successors(G, id)),
     ret |-> Successors(G, id)]

\* get_edges_from: every target is fetched with get_node (and so touched);
\* the pairs returned are those whose target is not deprecated.
get_edges_from(G, id) ==
    [g   |-> TouchAll(G, Successors(G, id)),
     ret |-> {t \in Successors(G, id) : ~G.nodes[t].deprecated}]

\* merge_nodes that leaves the outgoing edges of merge_id where they are
merge_nodes_in_only(G, keep_id, merge_id) ==
    LET G0 == get_node(get_node(G, keep_id), merge_id)
    IN IF ~has_node(G, keep_id) \/ ~has_node(G, merge_id)
       THEN G0
       ELSE
         LET G1 == [G0 EXCEPT !.nodes[keep_id] =
                      [@ EXCEPT !.confidence =
                                    (G0.nodes[keep_id].confidence + G0.nodes[merge_id].confidence) \div 2,
                                !.last_updated = now]]
             ins == {KnowledgeEdge(e.source_id, keep_id, e.type, e.confidence, e.weight) :
                        e \in {x \in G1.edges : x.target_id = merge_id /\ x.source_id # keep_id}}
             G2 == UpsertEdges(G1, ins)
             G4 == upsert_edge(G2, KnowledgeEdge(keep_id, merge_id, "similar_to", 9000, 10))
         IN deprecate_node(G4, merge_id)

\* merge_nodes(keep_id, merge_id)
merge_nodes(G, keep_id, merge_id) ==
    LET G0 == get_node(get_node(G, keep_id), merge_id)
    IN IF ~has_node(G, keep_id) \/ ~has_node(G, merge_id)
       THEN G0
       ELSE
         LET G1 == [G0 EXCEPT !.nodes[keep_id] =
                      [@ EXCEPT !.confidence =
                                    (G0.nodes[keep_id].confidence + G0.nodes[merge_id].confidence) \div 2,
                                !.last_updated = now]]
             ins == {KnowledgeEdge(e.source_id, keep_id, e.type, e.confidence, e.weight) :
                        e \in {x \in G1.edges : x.target_id = merge_id /\ x.source_id # keep_id}}
             G2 == UpsertEdges(G1, ins)
             outs == {KnowledgeEdge(keep_id, e.target_id, e.type, e.confidence, e.weight) :
                        e \in {x \in G2.edges : x.source_id = merge_id /\ x.target_id # keep_id}}
             G3 == UpsertEdges(G2, outs)
             G4 == upsert_edge(G3, KnowledgeEdge(keep_id, merge_id, "similar_to", 9000, 10))
         IN deprecate_node(G4, merge_id)

----------------------------------------------------------------------------
(* GraphEvolver *)

RECURSIVE UpdateAll(_, _, _)
\* for nid in node_ids: node = get_node(nid); if node: node.update_confidence(delta)
UpdateAll(G, ids, delta) ==
    IF ids = <<>> THEN G
    ELSE LET i == Head(ids)
             G1 == IF has_node(G, i)
                   THEN [G EXCEPT !.nodes[i] = update_confidence(touch(@, now), delta, now)]
                   ELSE G
         IN UpdateAll(G1, Tail(ids), delta)

\* confirm_nodes with the delta of a consistent mention
confirm_nodes_consistent(G, ids) == UpdateAll(G, ids, CONFIDENCE_CONSISTENT)

confirm_nodes(G, ids) == UpdateAll(G, ids, CONFIDENCE_USER_CONFIRM)

correct_node(G, id) == UpdateAll(G, <<id>>, CONFIDENCE_USER_CORRECT)

boost_used_nodes(G, ids) == UpdateAll(G, ids, CONFIDENCE_USED_IN_RESPONSE)

\* apply_time_decay: an active node idle for more than a day loses
\* CONFIDENCE_TIME_DECAY per idle day; last_accessed is read, not written.
apply_time_decay(G) ==
    [G EXCEPT !.nodes =
        [i \in 1..Len(G.nodes) |->
            LET n == G.nodes[i]
                days_idle == now - n.last_accessed
            IN IF ~n.deprecated /\ days_idle > 1
               THEN update_confidence(n, -(CONFIDENCE_TIME_DECAY * days_idle), now)
               ELSE n]]

\* prune_low_confidence: deprecate every active node below the threshold
prune_low_confidence(G) ==
    [G EXCEPT !.nodes =
        [i \in 1..Len(G.nodes) |->
            IF ~G.nodes[i].deprecated /\ G.nodes[i].confidence < MIN_CONFIDENCE_THRESHOLD
            THEN deprecate_node(G, i).nodes[i]
            ELSE G.nodes[i]]]

\* difflib.SequenceMatcher(None, a, b).ratio(), in percent, on the labels of the model
ratio(a, b) ==
    IF a = b THEN 100
    ELSE IF {a, b} = {"knowledge graph", "knowledge graphs"} THEN 96
    ELSE IF {a, b} = {"knowledge graph", "knowledge graphes"} THEN 93
    ELSE IF {a, b} = {"knowledge graphs", "knowledge graphes"} THEN 96
    ELSE 20

\* one call of merge_nodes by find_and_merge_duplicates, with what held of
\* node_a and node_b when it was made
MergeCall(G, merged_ids, a, b, keep_id) ==
    [keep_id |-> keep_id, drop_id |-> IF keep_id = a THEN b ELSE a,
     node_a |-> a, node_b |-> b,
     a_deprecated |-> G.nodes[a].deprecated, b_deprecated |-> G.nodes[b].deprecated,
     a_dropped |-> a \in merged_ids, b_dropped |-> b \in merged_ids,
     a_type |-> G.nodes[a].type, b_type |-> G.nodes[b].type,
     sim |-> ratio(G.nodes[a].label, G.nodes[b].label),
     a_confidence |-> G.nodes[a].confidence, b_confidence |-> G.nodes[b].confidence]

RECURSIVE MergeInner(_, _, _, _, _, _)
\* the inner loop of find_and_merge_duplicates: node_a against nodes[i + 1:]
MergeInner(G, merged_ids, a, lst, j, calls) ==
    IF j > Len(lst) THEN [g |-> G, merged_ids |-> merged_ids, calls |-> calls]
    ELSE LET b == lst[j]
         IN IF b \in merged_ids \/ G.nodes[a].type # G.nodes[b].type
            THEN MergeInner(G, merged_ids, a, lst, j + 1, calls)
            ELSE IF ratio(G.nodes[a].label, G.nodes[b].label) >= SIMILARITY_THRESHOLD
            THEN LET keep_id == IF G.nodes[a].confidence >= G.nodes[b].confidence THEN a ELSE b
                     drop_id == IF keep_id = a THEN b ELSE a
                 IN MergeInner(merge_nodes(G, keep_id, drop_id), merged_ids \cup {drop_id},
                               a, lst, j + 1,
                               Append(calls, MergeCall(G, merged_ids, a, b, keep_id)))
            ELSE MergeInner(G, merged_ids, a, lst, j + 1, calls)

RECURSIVE MergeOuter(_, _, _, _, _)
\* the outer loop: a node_a already in merged_ids is passed over
MergeOuter(G, merged_ids, lst, i, calls) ==
    IF i > Len(lst) THEN [g |-> G, calls |-> calls]
    ELSE IF lst[i] \in merged_ids
         THEN MergeOuter(G, merged_ids, lst, i + 1, calls)
         ELSE LET r == MergeInner(G, merged_ids, lst[i], lst, i + 1, calls)
              IN MergeOuter(r.g, r.merged_ids, lst, i + 1, r.calls)

RECURSIVE ActiveFrom(_, _)
\* the ids of the non-deprecated nodes, in insertion order, from position i on
ActiveFrom(G, i) ==
    IF i > Len(G.nodes) THEN <<>>
    ELSE IF G.nodes[i].deprecated THEN ActiveFrom(G, i + 1)
         ELSE <<i>> \o ActiveFrom(G, i + 1)

find_and_merge_duplicates(G) == MergeOuter(G, {}, ActiveFrom(G, 1), 1, <<>>).g

\* the merge_nodes calls of one pass, in order
merge_calls(G) == MergeOuter(G, {}, ActiveFrom(G, 1), 1, <<>>).calls

\* run_full_maintenance: prune, merge, decay (pagerank and save change no node)
run_full_maintenance(G) ==
    apply_time_decay(find_and_merge_duplicates(prune_low_confidence(G)))

----------------------------------------------------------------------------
(* get_context_for_query *)

\* Candidates: the seeds and their successors and predecessors.
Candidates(G, seed_ids) ==
    seed_ids \cup UNION {Successors(G, s) \cup Predecessors(G, s) : s \in seed_ids}

\* The selections scored[:top_k] can be.  With at most 15 nodes the pagerank
\* term min(pr * 100, 1) is 1 for every node, and the recency term is 1
\* because get_node has just touched the node, so the score orders by
\* confidence and ties fall either way.
TopK(G, active, top_k) ==
    {S \in SUBSET active :
        /\ Cardinality(S) = Min2(top_k, Cardinality(active))
        /\ \A i \in S, j \in active \ S : G.nodes[i].confidence >= G.nodes[j].confidence}

RECURSIVE EdgesOfAll(_, _)
\* get_edges_from for each of the top nodes: [g, ret], ret a set of [node, edges]
EdgesOfAll(G, top) ==
    IF top = {} THEN [g |-> G, ret |-> {}]
    ELSE LET i == CHOOSE x \in top : TRUE
             r == get_edges_from(G, i)
             rest == EdgesOfAll(r.g, top \ {i})
         IN [g |-> rest.g, ret |-> rest.ret \cup {[node |-> i, edges |-> r.ret]}]

\* get_context_for_query with the seeds the vector search returned and the
\* selection the sort made: [g, ret]
get_context_for_query(G, seed_ids, top) ==
    IF Len(G.nodes) = 0 THEN [g |-> G, ret |-> {}]
    ELSE EdgesOfAll(TouchAll(G, Candidates(G, seed_ids)), top)

ActiveCandidates(G, seed_ids) ==
    {i \in Candidates(G, seed_ids) : ~G.nodes[i].deprecated}

----------------------------------------------------------------------------
(* GraphEvolver.integrate *)

\* ExtractionResult: entities are [type, label, confidence]; an edge names its
\* endpoints by position in entities (the extractor gives it the ids of the
\* freshly created entity nodes); facts, preferences and questions are
\* labels; corrections are [wrong, correct].
ExtractionResult(entities, rel, preferences, corrections, questions, facts) ==
    [entities |-> entities, edges |-> rel, preferences |-> preferences,
     corrections |-> corrections, questions |-> questions, facts |-> facts]

is_empty(r) ==
    /\ r.entities = <<>> /\ r.edges = <<>> /\ r.preferences = <<>>
    /\ r.corrections = <<>> /\ r.questions = <<>> /\ r.facts = <<>>

RECURSIVE IntegrateEntities(_, _, _, _)
\* step 1; ids[k] is the graph id under which entity k was added, 0 when it
\* was folded into an existing node (its own id never enters the graph)
IntegrateEntities(G, entities, k, ids) ==
    IF k > Len(entities) THEN [g |-> G, ids |-> ids]
    ELSE LET e == entities[k]
             existing == find_node_by_label(G, e.label, e.type)
         IN IF existing # 0
            THEN IntegrateEntities(
                    [G EXCEPT !.nodes[existing] =
                        update_confidence(@, IF e.type = "person" /\ e.label = "user"
                                             THEN 500 ELSE CONFIDENCE_CONSISTENT, now)],
                    entities, k + 1, Append(ids, 0))
            ELSE LET r == upsert_node(G, create(e.type, e.label, e.confidence, now))
                 IN IntegrateEntities(r.g, entities, k + 1, Append(ids, r.id))

RECURSIVE IntegrateEdges(_, _, _)
\* step 2
IntegrateEdges(G, rel, ids) ==
    IF rel = <<>> THEN G
    ELSE LET src == ids[Head(rel).from]
             tgt == ids[Head(rel).to]
             G1 == get_node(get_node(G, src), tgt)
         IN IntegrateEdges(
                IF src # 0 /\ tgt # 0
                THEN upsert_edge(G1, KnowledgeEdge(src, tgt, Head(rel).type, 6000, 10))
                ELSE G1,
                Tail(rel), ids)

RECURSIVE IntegrateLabels(_, _, _, _, _, _)
\* steps 3, 4 and 5: look the label up under lookup_type; add a new node of
\* node_type when absent, otherwise raise the node found by delta
IntegrateLabels(G, labels, node_type, lookup_type, confidence, delta) ==
    IF labels = <<>> THEN G
    ELSE LET existing == find_node_by_label(G, Head(labels), lookup_type)
             G1 == IF existing = 0
                   THEN upsert_node(G, create(node_type, Head(labels), confidence, now)).g
                   ELSE IF delta = 0 THEN G
                   ELSE [G EXCEPT !.nodes[existing] = update_confidence(@, delta, now)]
         IN IntegrateLabels(G1, Tail(labels), node_type, lookup_type, confidence, delta)

RECURSIVE IntegrateCorrections(_, _)
\* step 6
IntegrateCorrections(G, corrections) ==
    IF corrections = <<>> THEN G
    ELSE LET wrong_node == find_node_by_label(G, Head(corrections).wrong, NoType)
             correct_nd == find_node_by_label(G, Head(corrections).correct, NoType)
             G1 == IF wrong_node # 0
                   THEN [G EXCEPT !.nodes[wrong_node] =
                            update_confidence(@, CONFIDENCE_USER_CORRECT, now)]
                   ELSE G
             G2 == IF correct_nd # 0 /\ wrong_node # 0
                   THEN upsert_edge(G1, KnowledgeEdge(correct_nd, wrong_node, "corrects", 9000, 10))
                   ELSE IF correct_nd # 0
                   THEN [G1 EXCEPT !.nodes[correct_nd] =
                            update_confidence(@, CONFIDENCE_USER_CONFIRM, now)]
                   ELSE G1
         IN IntegrateCorrections(G2, Tail(corrections))

integrate(G, result) ==
    IF is_empty(result) THEN G
    ELSE LET s1 == IntegrateEntities(G, result.entities, 1, <<>>)
             s2 == IntegrateEdges(s1.g, result.edges, s1.ids)
             s3 == IntegrateLabels(s2, result.facts, "fact", NoType, 6000, CONFIDENCE_CONSISTENT)
             s4 == IntegrateLabels(s3, result.preferences, "preference", "preference", 7500, 500)
             s5 == IntegrateLabels(s4, result.questions, "question", "question", 5000, 0)
         IN IntegrateCorrections(s5, result.corrections)

----------------------------------------------------------------------------
(* IngestionPipeline._process_chunk, after the extraction returned *)

RECURSIVE LinkToFile(_, _, _)
\* for node in entities + facts + preferences: link the node found under
\* its label to the FILE node
LinkToFile(G, labels, file_node_id) ==
    IF labels = <<>> THEN G
    ELSE LET existing == find_node_by_label(G, Head(labels), NoType)
         IN LinkToFile(
                IF existing # 0
                THEN upsert_edge(G, KnowledgeEdge(existing, file_node_id, "extracted_from", 8000, 10))
                ELSE G,
                Tail(labels), file_node_id)

EntityLabels(entities) == [k \in 1..Len(entities) |-> entities[k].label]

process_chunk(G, result, file_node_id) ==
    LinkToFile(integrate(G, result),
               EntityLabels(result.entities) \o result.facts \o result.preferences,
               file_node_id)

----------------------------------------------------------------------------
(* ReflectionEngine._apply_graph_updates *)

\* len(fact_text) of the labels of the model
LabelLen(l) ==
    IF l = "knowledge graph" THEN 15
    ELSE IF l = "knowledge graphs" THEN 16
    ELSE IF l = "knowledge graphes" THEN 17
    ELSE 4

RECURSIVE ByLabel(_, _, _)
\* for label in labels: node = find_node_by_label(label); if node: update by delta via get_node
ByLabel(G, labels, delta) ==
    IF labels = <<>> THEN G
    ELSE LET node == find_node_by_label(G, Head(labels), NoType)
         IN ByLabel(IF node # 0 THEN UpdateAll(G, <<node>>, delta) ELSE G, Tail(labels), delta)

RECURSIVE KeyLearnings(_, _)
\* the confidence the reflection LLM gave goes into the node as it is
KeyLearnings(G, learnings) ==
    IF learnings = <<>> THEN G
    ELSE LET l == Head(learnings)
         IN KeyLearnings(
                IF LabelLen(l.fact) > 10
                THEN upsert_node(G, create("fact", l.fact, l.confidence, now)).g
                ELSE G,
                Tail(learnings))

apply_graph_updates(G, d) ==
    LET s1 == ByLabel(G, d.nodes_to_boost, CONFIDENCE_USER_CONFIRM)
        s2 == ByLabel(s1, d.nodes_to_drop, CONFIDENCE_USER_CORRECT)
        s3 == KeyLearnings(s2, d.key_learnings)
    IN ByLabel(s3, d.corrections_detected, CONFIDENCE_USER_CORRECT)

----------------------------------------------------------------------------
(* The inputs of the graph operations *)

Labels == {"knowledge graph", "knowledge graphs", "user"}

Concept(l) == [type |-> "concept", label |-> l, confidence |-> 5000]

\* what _parse_extraction can hand to integrate, the empty result included
Extractions ==
    {ExtractionResult(<<>>, <<>>, <<>>, <<>>, <<>>, <<>>),
     ExtractionResult(<<Concept("knowledge graph")>>, <<>>, <<>>, <<>>, <<>>, <<>>),
     ExtractionResult(<<Concept("knowledge graph"), Concept("knowledge graphs")>>,
                      <<[from |-> 1, to |-> 2, type |-> "relates_to"]>>, <<>>, <<>>, <<>>, <<>>),
     ExtractionResult(<<[type |-> "person", label |-> "user", confidence |-> 9500]>>,
                      <<>>, <<>>, <<>>, <<>>, <<>>),
     ExtractionResult(<<>>, <<>>, <<"user">>, <<>>, <<"knowledge graph">>, <<"knowledge graphs">>),
     ExtractionResult(<<>>, <<>>, <<>>,
                      <<[wrong |-> "knowledge graph", correct |-> "knowledge graphs"]>>, <<>>, <<>>),
     ExtractionResult(<<>>, <<>>, <<>>,
                      <<[wrong |-> "knowledge graphs", correct |-> "user"]>>, <<>>, <<>>)}

ReflectionData(boost, drop, learnings, corrections) ==
    [nodes_to_boost |-> boost, nodes_to_drop |-> drop,
     key_learnings |-> learnings, corrections_detected |-> corrections]

\* what extract_from_text can hand to _process_chunk
ChunkExtractions == {r \in Extractions : r.corrections = <<>>}

\* what the reflection LLM can answer
Reflections ==
    {ReflectionData(<<"knowledge graph">>, <<"knowledge graphs">>, <<>>, <<>>),
     ReflectionData(<<>>, <<>>, <<>>, <<"knowledge graph">>),
     ReflectionData(<<>>, <<>>, <<[fact |-> "user", confidence |-> 10000]>>, <<>>)}
    \cup {ReflectionData(<<>>, <<>>, <<[fact |-> "knowledge graph", confidence |-> c]>>, <<>>) :
            c \in {0, 5000, 10000}}

\* what the vector search for seed nodes can return: nothing (also when it
\* fails), one node, or every node
SeedChoices == {{}, 1..Len(nodes)} \cup {{i} : i \in 1..Len(nodes)}

----------------------------------------------------------------------------
(* Persistence: KnowledgeGraph.save, GraphStore, KnowledgeGraph.load *)

\* the values of the NodeType and EdgeType enums
NodeTypeValues ==
    {"concept", "entity", "person", "fact", "preference", "skill", "mistake",
     "question", "domain", "topic", "file", "event", "technology"}
EdgeTypeValues ==
    {"is_a", "has_property", "part_of", "relates_to", "depends_on", "causes", "used_in",
     "similar_to", "contradicts", "supports", "corrects", "preferred_by", "knows",
     "dislikes", "extracted_from", "inferred_from", "mentioned_in", "authored_by",
     "contains"}

\* the fields of the KnowledgeEdge dataclass, and those without a default
EdgeFields ==
    {"source_id", "target_id", "type", "confidence", "weight", "properties",
     "created_at", "last_reinforced"}
RequiredEdgeFields == {"source_id", "target_id", "type"}

\* KnowledgeNode.to_dict: every field under its name, the id among them, the
\* type as the value of its enum member
KnowledgeNode_to_dict(id, n) ==
    [id |-> id, type |-> n.type, label |-> n.label, confidence |-> n.confidence,
     created_at |-> n.created_at, last_accessed |-> n.last_accessed,
     last_updated |-> n.last_updated, deprecated |-> n.deprecated]

\* NodeType(d["type"]) raises ValueError for a string that is no member, and
\* cls(**d) TypeError as the constructor does
KnowledgeNode_from_dict_raises(d) ==
    \/ d.type \notin NodeTypeValues
    \/ KnowledgeNode_raises(DOMAIN d)

\* from_dict leaving the deprecated flag at the default of the dataclass
KnowledgeNode_from_dict_default_flag(d) ==
    [id |-> d.id,
     data |-> [type |-> d.type, label |-> d.label, confidence |-> d.confidence,
               created_at |-> d.created_at, last_accessed |-> d.last_accessed,
               last_updated |-> d.last_updated, deprecated |-> FALSE]]

\* KnowledgeNode.from_dict: the node the keywords of d construct, under its id
KnowledgeNode_from_dict(d) ==
    [id |-> d.id,
     data |-> [type |-> d.type, label |-> d.label, confidence |-> d.confidence,
               created_at |-> d.created_at, last_accessed |-> d.last_accessed,
               last_updated |-> d.last_updated, deprecated |-> d.deprecated]]

\* KnowledgeEdge.to_dict
KnowledgeEdge_to_dict(e) ==
    [source_id |-> e.source_id, target_id |-> e.target_id, type |-> e.type,
     confidence |-> e.confidence, weight |-> e.weight]

KnowledgeEdge_from_dict_raises(d) ==
    \/ d.type \notin EdgeTypeValues
    \/ DOMAIN d \ EdgeFields # {}
    \/ RequiredEdgeFields \ DOMAIN d # {}

\* KnowledgeEdge.from_dict
KnowledgeEdge_from_dict(d) ==
    KnowledgeEdge(d.source_id, d.target_id, d.type, d.confidence, d.weight)

RECURSIVE InsertionOrders(_)
\* every order in which the members of a finite set can have been inserted
InsertionOrders(S) ==
    IF S = {} THEN {<<>>}
    ELSE UNION {{<<x>> \o p : p \in InsertionOrders(S \ {x})} : x \in S}

\* the networkx DiGraph behind a graph value: the nodes in insertion order
\* under their ids, and the edges in the order add_edge first saw their pair
DiGraph(ns, es) == [nodes |-> ns, adj |-> es]

\* the DiGraphs a graph value can be held in: one for every insertion order
\* of its edges
DiGraphs(G) ==
    {DiGraph([i \in 1..Len(G.nodes) |-> [id |-> i, data |-> G.nodes[i]]], l) :
        l \in InsertionOrders(G.edges)}

RECURSIVE edges_data(_, _)
\* DiGraph.edges(data=True): node by node in insertion order, the out-edges
\* of each in the order they were inserted; i is the position of the next node
edges_data(g, i) ==
    IF i > Len(g.nodes) THEN <<>>
    ELSE SelectSeq(g.adj, LAMBDA e : e.source_id = g.nodes[i].id) \o edges_data(g, i + 1)

\* GraphStore.save: the JSON document written to the graph file
GraphStore_save(nodes_map, edge_list) ==
    [schema_version |-> SCHEMA_VERSION, saved_at |-> now, nodes |-> nodes_map, edges |-> edge_list]

\* KnowledgeGraph.save: the node map {nid: to_dict} in node order and the
\* edge list in the order of edges(data=True)
save(g) ==
    LET es == edges_data(g, 1)
    IN GraphStore_save(
         [i \in 1..Len(g.nodes) |->
            [nid |-> g.nodes[i].id, nd |-> KnowledgeNode_to_dict(g.nodes[i].id, g.nodes[i].data)]],
         [i \in 1..Len(es) |-> KnowledgeEdge_to_dict(es[i])])

RECURSIVE LoadNodes(_, _)
\* the first loop of load: a node whose dict does not construct is skipped
LoadNodes(nodes_map, i) ==
    IF i > Len(nodes_map) THEN <<>>
    ELSE (IF KnowledgeNode_from_dict_raises(nodes_map[i].nd) THEN <<>>
          ELSE <<KnowledgeNode_from_dict(nodes_map[i].nd)>>) \o LoadNodes(nodes_map, i + 1)

RECURSIVE LoadEdges(_, _, _)
\* the second loop of load: an edge is added when it constructs and both its
\* endpoints were loaded
LoadEdges(ids, edge_list, i) ==
    IF i > Len(edge_list) THEN <<>>
    ELSE LET ed == edge_list[i]
         IN (IF \/ KnowledgeEdge_from_dict_raises(ed)
                \/ ed.source_id \notin ids
                \/ ed.target_id \notin ids
             THEN <<>>
             ELSE <<KnowledgeEdge_from_dict(ed)>>) \o LoadEdges(ids, edge_list, i + 1)

\* KnowledgeGraph.load into the empty graph of a new process
load(data) ==
    LET ns == LoadNodes(data.nodes, 1)
    IN DiGraph(ns, LoadEdges({ns[i].id : i \in 1..Len(ns)}, data.edges, 1))

----------------------------------------------------------------------------
(* The graph operations as actions *)

Cur == Graph(nodes, edges, {})

Commit(G, op, ret) ==
    /\ ops < MaxOps
    /\ Len(G.nodes) <= MaxNodes
    /\ nodes' = G.nodes
    /\ edges' = G.edges
    /\ edgeLog' = G.log
    /\ ops' = ops + 1
    /\ lastOp' = [op |-> op, ret |-> ret]
    /\ UNCHANGED <<now, notGraph>>

\* _extract_and_evolve once the extraction has returned
Integrate ==
    \E result \in Extractions :
        /\ Commit(integrate(Cur, result), "integrate", result)
        /\ UNCHANGED ingest

\* ingest_text up to its first await: the FILE node is upserted and its id kept
IngestStart ==
    /\ ingest.pc = "idle"
    /\ LET r == upsert_node(Cur, create("file", "notes.md", 8000, now))
       IN /\ Commit(r.g, "ingest_start", r.id)
          /\ ingest' = [pc |-> "chunks", file_node_id |-> r.id,
                        active |-> ~r.g.nodes[r.id].deprecated]

\* one chunk of the ingestion: integrate, then link to the id kept since the start
IngestChunk ==
    /\ ingest.pc = "chunks"
    /\ \E result \in ChunkExtractions, last \in BOOLEAN :
        /\ Commit(process_chunk(Cur, result, ingest.file_node_id), "process_chunk",
                  [file_node_id |-> ingest.file_node_id, active |-> ingest.active])
        /\ ingest' = IF last THEN [pc |-> "idle", file_node_id |-> 0, active |-> FALSE]
                     ELSE ingest

\* the graph context of a turn (KnowledgeReasoner.get_context_for_prompt)
GetContext ==
    \E seed_ids \in SeedChoices :
        \E top \in TopK(Cur, ActiveCandidates(Cur, seed_ids), 12) :
            LET r == get_context_for_query(Cur, seed_ids, top)
            IN /\ Commit(r.g, "get_context_for_query", r.ret)
               /\ UNCHANGED ingest

\* _handle_confirmation_signal
ConfirmSignal ==
    \E seed_ids \in SeedChoices :
        \E top \in TopK(Cur, ActiveCandidates(Cur, seed_ids), 3) :
            LET r == get_context_for_query(Cur, seed_ids, top)
                node_ids == {x.node : x \in r.ret}
            IN /\ Commit(UpdateAll(r.g, AsSeq(node_ids), CONFIDENCE_USER_CONFIRM),
                         "confirm_nodes", node_ids)
               /\ UNCHANGED ingest

\* the patterns of extract_correction_target in their order: the words that
\* introduce the captured group and the least number of characters it takes
CorrectionPatterns ==
    <<[intro |-> "actually", least |-> 10],
      [intro |-> "it's", least |-> 5],
      [intro |-> "the correct answer is", least |-> 5],
      [intro |-> "should be", least |-> 5],
      [intro |-> "but", least |-> 5]>>

\* re.search of one pattern in a message of words: 0 when it does not match,
\* else the position of the captured group; "not ... but" needs a "not" first
pattern_search(pattern, message) ==
    LET hits == {i \in 1..(Len(message) - 1) :
                    /\ message[i] = pattern.intro
                    /\ LabelLen(message[i + 1]) >= pattern.least
                    /\ (pattern.intro = "but" => \E j \in 1..(i - 1) : message[j] = "not")}
    IN IF hits = {} THEN 0 ELSE 1 + CHOOSE i \in hits : \A j \in hits : i <= j

RECURSIVE SearchPatterns(_, _)
SearchPatterns(k, message) ==
    IF k > Len(CorrectionPatterns) THEN ""
    ELSE IF pattern_search(CorrectionPatterns[k], message) # 0
         THEN message[pattern_search(CorrectionPatterns[k], message)]
         ELSE SearchPatterns(k + 1, message)

\* extract_correction_target: the group of the first pattern that matches the
\* user message, "" when none does; the agent response is not read
extract_correction_target(user_message, recent_agent_response) ==
    SearchPatterns(1, user_message)

\* the ways a user corrects the belief `wrong` of the last response with the
\* value `correct`
CorrectionMessages(wrong, correct) ==
    {<<"no", "it's", correct>>,
     <<"actually", correct>>,
     <<"that", "should be", correct>>,
     <<"not", wrong, "but", correct>>,
     <<"no", wrong, "is wrong">>}

\* _handle_correction_signal: nothing without a turn in the short-term buffer;
\* else the hint of the message is looked up by label and that node corrected.
\* ret keeps the node the last response was about, the node corrected and the
\* nodes before the call.
CorrectSignal ==
    \E wrong \in Labels, correct \in Labels, has_turn \in BOOLEAN :
        \E user_message \in CorrectionMessages(wrong, correct) :
            LET correction_hint == IF has_turn
                                   THEN extract_correction_target(user_message, wrong)
                                   ELSE ""
                node == IF correction_hint = "" THEN 0
                        ELSE find_node_by_label(Cur, correction_hint, NoType)
            IN /\ wrong # correct
               /\ Commit(IF node # 0 THEN correct_node(Cur, node) ELSE Cur,
                         "correction_signal",
                         [discussed |-> find_node_by_label(Cur, wrong, NoType),
                          has_turn |-> has_turn, corrected |-> node, before |-> nodes])
               /\ UNCHANGED ingest

\* ReflectionEngine._apply_graph_updates
ReflectApply ==
    \E d \in Reflections :
        /\ Commit(apply_graph_updates(Cur, d), "apply_graph_updates", d)
        /\ UNCHANGED ingest

\* GraphEvolver.run_full_maintenance
Maintenance ==
    /\ Commit(run_full_maintenance(Cur), "run_full_maintenance", 0)
    /\ UNCHANGED ingest

\* DELETE /graph/node/{node_id}
DeleteNode ==
    \E node_id \in 1..Len(nodes) :
        /\ Commit(deprecate_node(get_node(Cur, node_id), node_id), "delete_node", node_id)
        /\ UNCHANGED ingest

\* the agent is stopped and started again: stop saves the graph, start loads
\* the file into an empty graph; ret keeps the file and what the next save writes
Restart ==
    \E g \in DiGraphs(Cur) :
        LET first == save(g)
            loaded == load(first)
        IN /\ Commit(Graph([i \in 1..Len(loaded.nodes) |-> loaded.nodes[i].data],
                           {loaded.adj[i] : i \in 1..Len(loaded.adj)}, {}),
                     "restart", [first |-> first, second |-> save(loaded)])
           /\ ingest' = [pc |-> "idle", file_node_id |-> 0, active |-> FALSE]

\* the process idles for some days
Tick ==
    \E days \in 1..MaxDays :
        /\ ops < MaxOps
        /\ now' = now + days
        /\ ops' = ops + 1
        /\ UNCHANGED <<nodes, edges, edgeLog, lastOp, ingest, notGraph>>

NextGraph ==
    \/ Integrate
    \/ IngestStart
    \/ IngestChunk
    \/ GetContext
    \/ ConfirmSignal
    \/ CorrectSignal
    \/ ReflectApply
    \/ Maintenance
    \/ DeleteNode
    \/ Restart
    \/ Tick


----------------------------------------------------------------------------
(* One node under the confidence operations *)

\* the confidences a node is first inserted with
ConfGrid == {500 * k : k \in 1..19} \cup {9200, 9300, 9400}

\* consecutive correct_node calls ending with the last operation
Streak == IF lastOp.op \in {"correct_node"} THEN lastOp.ret.streak ELSE 0

\* the confidence the node had when it was last accessed, as long as only
\* maintenance runs and idle days followed; -1 after a reinforcement, which
\* changes the confidence without an access
DecayFrom ==
    IF lastOp.op \in {"tick", "run_full_maintenance"} THEN lastOp.ret.decay_from
    ELSE IF lastOp.op = "upsert_node" /\ ~lastOp.ret.inserted THEN -1
    ELSE nodes[1].confidence

ConfCommit(G, op, ret) ==
    /\ ops < MaxConfOps
    /\ nodes' = G.nodes
    /\ edges' = G.edges
    /\ edgeLog' = G.log
    /\ ops' = ops + 1
    /\ lastOp' = [op |-> op, ret |-> ret]
    /\ UNCHANGED <<now, ingest, notGraph>>

\* upsert_node of a CONCEPT node labelled "knowledge graph"; the confidence
\* of the incoming node matters only when the node is new
ConfUpsert ==
    \E c \in IF nodes = <<>> THEN ConfGrid ELSE {5000} :
        LET r == upsert_node(Cur, create("concept", "knowledge graph", c, now))
        IN ConfCommit(r.g, "upsert_node",
                      [inserted |-> nodes = <<>>,
                       second |-> lastOp.op = "upsert_node" /\ lastOp.ret.inserted,
                       before |-> IF nodes = <<>> THEN c ELSE nodes[r.id].confidence,
                       streak |-> 0])

ConfCorrect ==
    /\ nodes # <<>>
    /\ ConfCommit(correct_node(Cur, 1), "correct_node",
                  [inserted |-> FALSE, second |-> FALSE,
                   before |-> nodes[1].confidence, streak |-> Streak + 1])

ConfConfirm ==
    /\ nodes # <<>>
    /\ ConfCommit(confirm_nodes(Cur, <<1>>), "confirm_nodes",
                  [inserted |-> FALSE, second |-> FALSE,
                   before |-> nodes[1].confidence, streak |-> 0,
                   after_correction |-> lastOp.op = "correct_node",
                   corrected_from |-> IF lastOp.op = "correct_node"
                                      THEN lastOp.ret.before ELSE 0])

ConfBoost ==
    /\ nodes # <<>>
    /\ ConfCommit(boost_used_nodes(Cur, <<1>>), "boost_used_nodes",
                  [inserted |-> FALSE, second |-> FALSE,
                   before |-> nodes[1].confidence, streak |-> 0])

\* run_full_maintenance; streak keeps the corrections that came right before
ConfMaintenance ==
    /\ nodes # <<>>
    /\ ConfCommit(run_full_maintenance(Cur), "run_full_maintenance",
                  [inserted |-> FALSE, second |-> FALSE,
                   before |-> nodes[1].confidence, streak |-> Streak,
                   decay_from |-> DecayFrom])

ConfTick ==
    /\ nodes # <<>>
    /\ ops < MaxConfOps
    /\ \E days \in 1..MaxDays :
        /\ now' = now + days
        /\ ops' = ops + 1
        /\ lastOp' = [op |-> "tick",
                      ret |-> [inserted |-> FALSE, second |-> FALSE,
                               before |-> nodes[1].confidence, streak |-> 0,
                               decay_from |-> DecayFrom]]
        /\ UNCHANGED <<nodes, edges, edgeLog, ingest, notGraph>>

NextConf ==
    \/ ConfUpsert
    \/ ConfCorrect
    \/ ConfConfirm
    \/ ConfBoost
    \/ ConfMaintenance
    \/ ConfTick

----------------------------------------------------------------------------
(* merge_nodes on graphs built node by node and edge by edge *)

MergeCommit(G, op, ret) ==
    /\ ops < MaxMergeOps
    /\ Len(G.nodes) <= MaxNodes
    /\ nodes' = G.nodes
    /\ edges' = G.edges
    /\ edgeLog' = G.log
    /\ ops' = ops + 1
    /\ lastOp' = [op |-> op, ret |-> ret]
    /\ UNCHANGED <<now, ingest, notGraph>>

\* the CONCEPT nodes upserted, each label with its own confidence
MergeConcepts ==
    {[label |-> "knowledge graphes", confidence |-> 8000],
     [label |-> "knowledge graph", confidence |-> 5000],
     [label |-> "knowledge graphs", confidence |-> 3000]}

\* upsert_node of a CONCEPT node
MergeUpsertNode ==
    \E c \in MergeConcepts :
        LET r == upsert_node(Cur, create("concept", c.label, c.confidence, now))
        IN MergeCommit(r.g, "upsert_node", r.id)

\* upsert_edge between two nodes of the graph (a relationship may name one
\* entity twice); ret keeps the edge passed, the edge the pair had and the
\* number of edges before the call
MergeUpsertEdge ==
    \E src \in 1..Len(nodes), tgt \in 1..Len(nodes), type \in {"relates_to", "is_a"} :
        LET edge == KnowledgeEdge(src, tgt, type, 5000, 10)
        IN MergeCommit(upsert_edge(Cur, edge), "upsert_edge",
                       [edge |-> edge, before |-> EdgesAt(Cur, src, tgt),
                        count |-> Cardinality(edges)])

\* merge_nodes(keep_id, drop_id) as find_and_merge_duplicates calls it, with
\* two different nodes; the graph before the call is kept for comparison
MergeNodes ==
    \E keep_id \in 1..Len(nodes), drop_id \in 1..Len(nodes) :
        /\ keep_id # drop_id
        /\ MergeCommit(merge_nodes(Cur, keep_id, drop_id), "merge_nodes",
                       [keep_id |-> keep_id, drop_id |-> drop_id,
                        nodes |-> nodes, edges |-> edges])

\* GraphEvolver.find_and_merge_duplicates; ret keeps its merge_nodes calls
MergeDuplicates ==
    MergeCommit(find_and_merge_duplicates(Cur), "find_and_merge_duplicates",
                merge_calls(Cur))

NextMerge ==
    \/ MergeDuplicates
    \/ MergeUpsertNode
    \/ MergeUpsertEdge
    \/ MergeNodes

----------------------------------------------------------------------------
(* The turn pipeline: AgentLoop.process and AgentLoop.stream_process *)

MemoryStores == {"short_term", "relational", "vector", "episodic"}

\* a bounded deque that turns away the new item when it is full
deque_append_keep_old(buffer, maxlen, x) ==
    IF Len(buffer) >= maxlen THEN buffer ELSE Append(buffer, x)

\* deque(maxlen=maxlen).append(x): a full deque discards its leftmost item;
\* a deque of maxlen 0 stays empty
deque_append(buffer, maxlen, x) ==
    IF maxlen = 0 THEN buffer
    ELSE IF Len(buffer) >= maxlen THEN Append(Tail(buffer), x)
    ELSE Append(buffer, x)

\* ShortTermMemory.add on the buffer of the MemoryManager, a deque of at most
\* MAX_SHORT_TERM_MESSAGES turns
short_term_add(buffer, id) == deque_append(buffer, MAX_SHORT_TERM_MESSAGES, id)

\* add_interaction that leaves the episodic log out
add_interaction_no_episodic(S, id, failure) ==
    LET s1 == [S EXCEPT !.short_term = short_term_add(@, id)]
    IN IF failure = "relational"
       THEN [stores |-> s1, raised |-> TRUE]
       ELSE [stores |-> [s1 EXCEPT !.relational = Append(@, id),
                                   !.vector = IF failure = "vector" THEN @ ELSE Append(@, id)],
             raised |-> failure # "none"]

\* MemoryManager.add_interaction: short-term, then the relational row, then
\* the vector document and the episodic event gathered; failure names the
\* store whose write raises.  Nothing is caught: the exception leaves
\* add_interaction after the writes that did succeed.
add_interaction(S, id, failure) ==
    LET s1 == [S EXCEPT !.short_term = short_term_add(@, id)]
    IN IF failure = "relational"
       THEN [stores |-> s1, raised |-> TRUE]
       ELSE [stores |-> [s1 EXCEPT !.relational = Append(@, id),
                                   !.vector = IF failure = "vector" THEN @ ELSE Append(@, id),
                                   !.episodic = IF failure = "episodic" THEN @ ELSE Append(@, id)],
             raised |-> failure # "none"]

\* how many times turn id was written to a store
Writes(store, id) == Cardinality({k \in 1..Len(stores[store]) : stores[store][k] = id})

\* extraction tasks created for turn id
TasksCreated(id) == Cardinality({k \in 1..Len(tasks.created) : tasks.created[k] = id})

IdleTurn ==
    [id |-> 0, mode |-> "none", pc |-> "idle", tokens |-> 0,
     llm_failed |-> FALSE, cancelled |-> FALSE, failed |-> "none", steps |-> <<>>,
     agent_response |-> "", written |-> "", returned |-> "",
     assigned |-> "", prompt_name |-> ""]

\* AGENT_NAME, the name used when the graph holds none
AGENT_NAME == "PsychoPortal"

\* the keywords _store_agent_name constructs its node with
StoreAgentNameKeywords == {"label", "type", "domain", "confidence", "properties", "source"}

\* the names a message assigns, each with the label f"agent_name:{name.lower()}"
AgentNames == {[value |-> "Jarvis", label |-> "agent_name:jarvis"]}

agent_name_label(name) == (CHOOSE a \in AgentNames : a.value = name).label

\* _store_agent_name: build the PREFERENCE node agent_name:<name> at 0.95 and
\* upsert it; any exception is logged and the graph stays as it was
store_agent_name(G, name) ==
    IF KnowledgeNode_raises(StoreAgentNameKeywords) THEN G
    ELSE upsert_node(G, create("preference", agent_name_label(name), CONF_MAX, now)).g

\* _get_agent_name: the value of the first PREFERENCE node agent_name:* that
\* is not deprecated, AGENT_NAME when there is none
get_agent_name(G) ==
    LET hits == {i \in 1..Len(G.nodes) :
                    /\ G.nodes[i].type = "preference"
                    /\ G.nodes[i].label \in {a.label : a \in AgentNames}
                    /\ ~G.nodes[i].deprecated}
        first == CHOOSE i \in hits : \A j \in hits : i <= j
    IN IF hits = {} THEN AGENT_NAME
       ELSE (CHOOSE a \in AgentNames : a.label = G.nodes[first].label).value

\* process with an LLM failure that leaves the response empty
complete_response_empty(ok) == IF ok THEN "content" ELSE ""

\* ctx.agent_response after the LLM call of process: the content of the
\* completion, or the text "I ran into an error: ..." when the call raised
complete_response(ok) == IF ok THEN "content" ELSE "error_text"

\* the steps of a turn up to the LLM call, in the order of the code: the
\* gathered lookups and the graph context in _prepare_context, then
\* _build_system_prompt and _build_messages; a lookup that raises ends them
prepare_steps(raised) ==
    IF raised THEN <<"retrieval_raised">>
    ELSE <<"retrieval", "graph_context", "prompt_assembly">>

\* the LLM call starts when the turn is prepared
llm_steps(pc) == IF pc = "prepared" THEN <<"llm_call">> ELSE <<>>

\* the steps after the response with the task created ahead of the write
finalize_steps_spawn_first(raised) ==
    IF raised THEN <<"domain_handler", "create_task", "memory_write_raised">>
    ELSE <<"domain_handler", "create_task", "memory_write">>

\* the steps after the response: the domain handler, the awaited
\* add_interaction, then create_task; nothing follows a write that raises
finalize_steps(raised) ==
    IF raised THEN <<"domain_handler", "memory_write_raised">>
    ELSE <<"domain_handler", "memory_write", "create_task">>

\* _prepare_context.  The correction and confirmation handlers and the graph
\* context query act on the graph as CorrectSignal, ConfirmSignal and
\* GetContext do; here the graph is read with every node as seed.
\* retrieval and warnings are the outcomes of the two gathered lookups.
PrepareContext ==
    /\ turn.pc \in {"idle", "returned", "raised", "closed"}
    /\ turn.id < MaxTurns
    /\ \E mode \in {"process", "stream"},
          retrieval \in {"hits", "empty", "raises"},
          warnings \in {"ok", "search_raises", "update_raises"},
          assigned \in {""} \cup {a.value : a \in AgentNames} :
        LET raised == retrieval = "raises" \/ warnings = "update_raises"
            G0 == IF assigned # "" THEN store_agent_name(Cur, assigned) ELSE Cur
            seed_ids == 1..Len(G0.nodes)
            top == {i \in seed_ids : ~G0.nodes[i].deprecated}
            G == IF raised THEN G0 ELSE get_context_for_query(G0, seed_ids, top).g
        IN /\ turn' = [IdleTurn EXCEPT !.id = turn.id + 1, !.mode = mode,
                                       !.pc = IF raised THEN "raised" ELSE "prepared",
                                       !.steps = prepare_steps(raised),
                                       !.assigned = assigned,
                                       !.prompt_name = IF raised THEN "" ELSE get_agent_name(G),
                                       !.failed = IF retrieval = "raises" THEN "retrieval"
                                                  ELSE IF warnings = "update_raises" THEN "warnings"
                                                  ELSE "none"]
           /\ nodes' = G.nodes
    /\ UNCHANGED <<edges, edgeLog, now, ops, lastOp, stores, tasks, notLoop>>

\* process: await self._llm.complete(...), an exception becomes the response text
Complete ==
    /\ turn.mode = "process" /\ turn.pc = "prepared"
    /\ \E ok \in BOOLEAN :
        turn' = [turn EXCEPT !.pc = "responded", !.llm_failed = ~ok,
                             !.agent_response = complete_response(ok),
                             !.steps = @ \o llm_steps(turn.pc)]
    /\ UNCHANGED <<nodes, edges, edgeLog, now, ops, lastOp, stores, tasks, notLoop>>

\* stream_process: one token appended to full_parts and yielded
StreamToken ==
    /\ turn.mode = "stream" /\ turn.pc \in {"prepared", "streaming"}
    /\ turn.tokens < MaxTokens
    /\ turn' = [turn EXCEPT !.pc = "streaming", !.tokens = @ + 1,
                            !.steps = @ \o llm_steps(turn.pc)]
    /\ UNCHANGED <<nodes, edges, edgeLog, now, ops, lastOp, stores, tasks, notLoop>>

\* the LLM stream is exhausted
StreamEnd ==
    /\ turn.mode = "stream" /\ turn.pc \in {"prepared", "streaming"}
    /\ turn' = [turn EXCEPT !.pc = "responded", !.agent_response = "tokens",
                            !.steps = @ \o llm_steps(turn.pc)]
    /\ UNCHANGED <<nodes, edges, edgeLog, now, ops, lastOp, stores, tasks, notLoop>>

\* the LLM stream raises: the error text is appended and yielded
StreamRaise ==
    /\ turn.mode = "stream" /\ turn.pc \in {"prepared", "streaming"}
    /\ turn' = [turn EXCEPT !.pc = "responded", !.llm_failed = TRUE,
                            !.agent_response = "tokens_and_error_text",
                            !.steps = @ \o llm_steps(turn.pc)]
    /\ UNCHANGED <<nodes, edges, edgeLog, now, ops, lastOp, stores, tasks, notLoop>>

\* the consumer stops iterating while the generator is suspended at
\* "yield token": GeneratorExit is no Exception, the except clause does not
\* catch it and the rest of stream_process does not run
StreamCancel ==
    /\ turn.mode = "stream" /\ turn.pc = "streaming"
    /\ turn' = [turn EXCEPT !.pc = "closed", !.cancelled = TRUE]
    /\ UNCHANGED <<nodes, edges, edgeLog, now, ops, lastOp, stores, tasks, notLoop>>

\* after the response: the domain handler (its failure is caught), the
\* memory write, then create_task(_extract_and_evolve)
Finalize ==
    /\ turn.pc = "responded"
    /\ \E handler_fails \in BOOLEAN, failure \in {"none", "relational", "vector", "episodic"} :
        LET w == add_interaction(stores, turn.id, failure)
        IN /\ stores' = w.stores
           /\ turn' = [turn EXCEPT !.pc = IF w.raised THEN "raised" ELSE "returned",
                                   !.failed = IF w.raised THEN "memory_write"
                                              ELSE IF handler_fails THEN "domain_handler"
                                              ELSE "none",
                                   !.written = turn.agent_response,
                                   !.returned = IF w.raised \/ turn.mode = "stream" THEN ""
                                                ELSE turn.agent_response,
                                   !.steps = @ \o finalize_steps(w.raised)]
           /\ tasks' = IF w.raised THEN tasks
                       ELSE [created |-> Append(tasks.created, turn.id),
                             pending |-> tasks.pending \cup {turn.id}]
    /\ UNCHANGED <<nodes, edges, edgeLog, now, ops, lastOp, notLoop>>

\* _extract_and_evolve runs: the extraction comes back (empty when its LLM
\* call failed) and is integrated; whatever raises is caught and logged
ExtractAndEvolve ==
    \E id \in tasks.pending :
        \E result \in {ExtractionResult(<<>>, <<>>, <<>>, <<>>, <<>>, <<>>),
                       ExtractionResult(<<Concept("knowledge graph")>>, <<>>, <<>>, <<>>, <<>>, <<>>)},
           raises \in BOOLEAN :
            LET G == IF raises THEN Cur ELSE integrate(Cur, result)
            IN /\ Len(G.nodes) <= MaxNodes
               /\ nodes' = G.nodes
               /\ edges' = G.edges
               /\ edgeLog' = G.log
               /\ tasks' = [tasks EXCEPT !.pending = @ \ {id}]
               /\ UNCHANGED <<now, ops, lastOp, turn, stores, notLoop>>

NextLoop ==
    \/ PrepareContext
    \/ Complete
    \/ StreamToken
    \/ StreamEnd
    \/ StreamRaise
    \/ StreamCancel
    \/ Finalize
    \/ ExtractAndEvolve

----------------------------------------------------------------------------
(* ShortTermMemory *)

\* Turn(user, assistant) of the n-th exchange
Turn(n) == [user |-> <<"user message", n>>, assistant |-> <<"agent response", n>>]

Message(role, content) == [role |-> role, content |-> content]

\* ShortTermMemory(max_turns)
ShortTermMemory(max_turns) ==
    [max_turns |-> max_turns, turns |-> <<>>, op |-> "init", before |-> <<>>, added |-> 0]

RECURSIVE get_messages(_)
\* get_messages: a user and an assistant message per turn, oldest turn first
get_messages(turns) ==
    IF turns = <<>> THEN <<>>
    ELSE <<Message("user", Head(turns).user), Message("assistant", Head(turns).assistant)>>
            \o get_messages(Tail(turns))

\* a memory is built with the max_short_term_messages of the settings
ShortConstruct ==
    /\ \E max_turns \in 0..MaxShortTurns :
        short' = [ShortTermMemory(max_turns) EXCEPT !.added = short.added]
    /\ UNCHANGED notObj

\* ShortTermMemory.add
ShortAdd ==
    /\ short.added < MaxShortAdds
    /\ short' = [short EXCEPT !.turns = deque_append(@, short.max_turns, Turn(short.added + 1)),
                              !.op = "add",
                              !.before = short.turns,
                              !.added = @ + 1]
    /\ UNCHANGED notObj

\* ShortTermMemory.clear
ShortClear ==
    /\ short.turns # <<>>
    /\ short' = [short EXCEPT !.turns = <<>>, !.op = "clear", !.before = short.turns]
    /\ UNCHANGED notObj

NextShort ==
    \/ ShortConstruct
    \/ ShortAdd
    \/ ShortClear

----------------------------------------------------------------------------
(* ProactiveScheduler and ReminderManager.  In this part the clock counts
   days; the scheduler ticks every minute, so any number of ticks fits
   between two values of the clock.  Under NextSched the scheduler is the one
   built without a calendar manager, whose _check_calendar returns at once;
   under NextEvict it has one, whose events fill the notification deque. *)

Reminder(due, recurrence, month_end) ==
    [due_timestamp |-> due, completed |-> FALSE, snoozed_until |-> 0,
     recurrence |-> recurrence, month_end |-> month_end]

\* the kinds of reminder created: month_end marks a monthly reminder due on
\* a day the next month does not have
ReminderKinds ==
    {[recurrence |-> "none", month_end |-> FALSE],
     [recurrence |-> "daily", month_end |-> FALSE],
     [recurrence |-> "monthly", month_end |-> TRUE]}

\* the WHERE clause of get_due
is_due(r, t) ==
    /\ ~r.completed
    /\ r.due_timestamp <= t
    /\ (r.snoozed_until = 0 \/ r.snoozed_until <= t)

RECURSIVE SortByDue(_, _)
\* ORDER BY due_timestamp ASC (all priorities equal), rows in id order
SortByDue(rs, ids) ==
    IF ids = {} THEN <<>>
    ELSE LET m == CHOOSE x \in ids :
                    \A y \in ids : \/ rs[x].due_timestamp < rs[y].due_timestamp
                                   \/ (rs[x].due_timestamp = rs[y].due_timestamp /\ x <= y)
         IN <<m>> \o SortByDue(rs, ids \ {m})

get_due(rs, t) == SortByDue(rs, {i \in 1..Len(rs) : is_due(rs[i], t)})

\* dt.replace(month=...) raises ValueError when the day does not exist
reschedule_raises(r) == r.recurrence = "monthly" /\ r.month_end

reschedule_recurring(rs, id) ==
    [rs EXCEPT ![id] = [@ EXCEPT !.due_timestamp =
                                    @ + (IF rs[id].recurrence = "daily" THEN 1 ELSE 30),
                                 !.completed = FALSE]]

\* deque(maxlen=MAX_NOTIFICATIONS).append
emit(notifications, n) ==
    IF Len(notifications) >= MAX_NOTIFICATIONS
    THEN Append(Tail(notifications), n)
    ELSE Append(notifications, n)

notify_key(id) == <<"reminder", id>>

\* a scan that takes no key for notified
never_notified(sc, key) == FALSE

\* a duplicate test that looks for the key in the notifications still held
in_recent_notifications(sc, key) ==
    \E i \in 1..Len(sc.notifications) :
        /\ sc.notifications[i].type = key[1]
        /\ sc.notifications[i].reminder = key[2]

\* if notify_key in self._notified_ids
already_notified(sc, key) == key \in sc.notified_ids

\* the rows of due that have no notification yet
Unnotified(due, sc) ==
    {due[i] : i \in {j \in 1..Len(due) : ~already_notified(sc, notify_key(due[j]))}}

\* except Exception: the scan ends, with what it has recorded and emitted;
\* the rows not reached are left for a later tick
abort_scan(rest, rs, sc) ==
    [reminders |-> rs, sched |-> [sc EXCEPT !.left = @ \cup Unnotified(rest, sc)]]

\* a notified row that ends the scan
rest_after_break(due) == <<>>

\* continue: the scan goes on with the rows after a notified one
rest_after_continue(due) == Tail(due)

RECURSIVE ScanDue(_, _, _)
\* the loop of _check_reminders over the rows get_due returned; an exception
\* of reschedule_recurring ends the scan where it is
ScanDue(due, rs, sc) ==
    IF due = <<>> THEN [reminders |-> rs, sched |-> sc]
    ELSE LET id == Head(due)
             reached == [sc EXCEPT !.seen = @ \cup {id}]
         IN IF already_notified(sc, notify_key(id))
            THEN ScanDue(rest_after_continue(due), rs,
                    [reached EXCEPT
                        !.skipped = @ \cup {id},
                        !.skipped_evicted =
                            IF in_recent_notifications(sc, notify_key(id)) THEN @
                            ELSE @ \cup {id}])
            ELSE LET sc1 == [reached EXCEPT
                                !.notified_ids = @ \cup {notify_key(id)},
                                !.notifications = emit(@, [type |-> "reminder", reminder |-> id]),
                                !.emitted[id] = @ + 1]
                 IN IF rs[id].recurrence = "none" THEN ScanDue(Tail(due), rs, sc1)
                    ELSE IF reschedule_raises(rs[id]) THEN abort_scan(Tail(due), rs, sc1)
                    ELSE ScanDue(Tail(due), reschedule_recurring(rs, id), sc1)

\* task counts the _run_loop tasks alive; stopped_in is where the last stop
\* found the loop; skipped_evicted are the reminders a scan passed over when
\* their notification had left the deque; cal_emitted counts the calendar
\* notifications and cal_ticks the calendar checks that emitted some; left are the
\* reminders without a notification that an aborted scan did not reach
InitSched ==
    [running |-> FALSE, pc |-> "sleep", due |-> <<>>, notified_ids |-> {},
     notifications |-> <<>>, emitted |-> [i \in 1..MaxFairReminders |-> 0],
     seen |-> {}, skipped |-> {}, task |-> 0, stopped_in |-> "none",
     skipped_evicted |-> {}, cal_emitted |-> 0, cal_ticks |-> 0, left |-> {}]

\* start: nothing when already running, else one new _run_loop task
ProactiveScheduler_start(sc) ==
    IF sc.running THEN sc
    ELSE [sc EXCEPT !.running = TRUE, !.task = @ + 1]

\* stop that clears the flag and leaves the task alone
stop_without_cancel(sc) ==
    [sc EXCEPT !.running = FALSE, !.stopped_in = IF sc.task > 0 THEN sc.pc ELSE "none"]

\* stop: the flag is cleared, the task cancelled at the await it is
\* suspended in, and awaited until it has finished
ProactiveScheduler_stop(sc) ==
    [sc EXCEPT !.running = FALSE, !.pc = "sleep", !.due = <<>>, !.task = 0,
               !.stopped_in = IF sc.task > 0 THEN sc.pc ELSE "none"]

\* ReminderManager.create, while the table has fewer than limit rows
ReminderManager_create(limit) ==
    /\ Len(reminders) < limit
    /\ \E k \in ReminderKinds, due \in {now, now + 1} :
        reminders' = Append(reminders, Reminder(due, k.recurrence, k.month_end))
    /\ UNCHANGED <<sched, now, notSched>>

CreateReminder == ReminderManager_create(MaxReminders)

\* with room for a reminder that a scan can leave behind another one
CreateReminderFair == ReminderManager_create(MaxFairReminders)

\* ReminderManager.complete
CompleteReminder ==
    /\ \E id \in 1..Len(reminders) :
        /\ ~reminders[id].completed
        /\ reminders' = [reminders EXCEPT ![id].completed = TRUE]
    /\ UNCHANGED <<sched, now, notSched>>

\* ReminderManager.snooze, for a day
SnoozeReminder ==
    /\ \E id \in 1..Len(reminders) :
        /\ reminders[id].snoozed_until <= now
        /\ reminders' = [reminders EXCEPT ![id].snoozed_until = now + 1]
    /\ UNCHANGED <<sched, now, notSched>>

\* ProactiveScheduler.start
SchedStart ==
    /\ sched' = ProactiveScheduler_start(sched)
    /\ UNCHANGED <<reminders, now, notSched>>

\* ProactiveScheduler.stop: the loop task is cancelled where it waits
SchedStop ==
    /\ sched' = ProactiveScheduler_stop(sched)
    /\ UNCHANGED <<reminders, now, notSched>>

\* _check_reminders up to the rows of get_due; when the query raises the
\* check is over
TickGetDue ==
    /\ sched.task > 0 /\ sched.running /\ sched.pc = "sleep"
    /\ \E query_raises \in BOOLEAN :
        sched' = IF query_raises THEN sched
                 ELSE [sched EXCEPT !.pc = "scan", !.due = get_due(reminders, now)]
    /\ UNCHANGED <<reminders, now, notSched>>

\* the tick whose get_due query succeeds
TickGetDueOk ==
    /\ sched.task > 0 /\ sched.running /\ sched.pc = "sleep"
    /\ sched' = [sched EXCEPT !.pc = "scan", !.due = get_due(reminders, now)]
    /\ UNCHANGED <<reminders, now, notSched>>

\* _check_reminders over the rows
TickScan ==
    /\ sched.task > 0 /\ sched.pc = "scan"
    /\ LET r == ScanDue(sched.due, reminders, sched)
       IN /\ reminders' = r.reminders
          /\ sched' = [r.sched EXCEPT !.pc = "sleep", !.due = <<>>]
    /\ UNCHANGED <<now, notSched>>

\* a day passes
AdvanceTime ==
    /\ now < MaxTime
    /\ now' = now + 1
    /\ UNCHANGED <<reminders, sched, notSched>>

\* the loop of _check_calendar over n events that need their reminder now,
\* numbered from first on: n appends to the deque, which keeps the last
\* MAX_NOTIFICATIONS
EmitCalendar(notifications, first, n) ==
    LET all == notifications \o [i \in 1..n |-> [type |-> "calendar", event |-> first + i - 1]]
    IN IF Len(all) > MAX_NOTIFICATIONS
       THEN SubSeq(all, Len(all) - MAX_NOTIFICATIONS + 1, Len(all))
       ELSE all

\* _check_calendar of a scheduler that also has a calendar manager: one
\* upcoming event, or as many as the deque holds, need their reminder
TickCalendar ==
    /\ sched.task > 0 /\ sched.running /\ sched.pc = "sleep"
    /\ \E n \in {1, MAX_NOTIFICATIONS} :
        /\ sched.cal_ticks < MaxCalendarTicks
        /\ sched' = [sched EXCEPT
                        !.notifications = EmitCalendar(@, sched.cal_emitted + 1, n),
                        !.cal_emitted = @ + n,
                        !.cal_ticks = @ + 1]
    /\ UNCHANGED <<reminders, now, notSched>>

\* ReminderManager.create of a daily reminder due now
CreateDailyReminder ==
    /\ Len(reminders) < MaxReminders
    /\ reminders' = Append(reminders, Reminder(now, "daily", FALSE))
    /\ UNCHANGED <<sched, now, notSched>>

\* the scheduler with both managers, kept running
NextEvict ==
    \/ CreateDailyReminder
    \/ SnoozeReminder
    \/ SchedStart
    \/ TickGetDue
    \/ TickScan
    \/ TickCalendar
    \/ AdvanceTime

NextSchedFair ==
    \/ CreateReminderFair
    \/ CompleteReminder
    \/ SnoozeReminder
    \/ SchedStart
    \/ SchedStop
    \/ TickGetDue
    \/ TickScan
    \/ AdvanceTime

NextSched ==
    \/ CreateReminder
    \/ CompleteReminder
    \/ SnoozeReminder
    \/ SchedStart
    \/ SchedStop
    \/ TickGetDue
    \/ TickScan
    \/ AdvanceTime

----------------------------------------------------------------------------
(* CalendarManager and ProactiveScheduler._check_calendar.  In this part the
   clock counts quarters of an hour, and so does reminder_minutes: 1 is 15
   minutes, 4 an hour, 8 two hours.  The scheduler is the one built with a
   calendar manager and no reminder manager, whose _check_reminders returns
   at once. *)

\* a row of calendar_events as add_event inserts it
CalendarRow(start, reminder_minutes) ==
    [start_timestamp |-> start, reminder_minutes |-> reminder_minutes]

\* CalendarEvent.from_row: reminder_minutes = row["reminder_minutes"] or 15
CalendarEvent_from_row(id, row) ==
    [id |-> id, start_timestamp |-> row.start_timestamp,
     reminder_minutes |-> IF row.reminder_minutes = 0 THEN DEFAULT_REMINDER_MINUTES
                          ELSE row.reminder_minutes]

\* CalendarEvent.needs_reminder at time t
needs_reminder(e, t) ==
    /\ e.start_timestamp - e.reminder_minutes <= t
    /\ t < e.start_timestamp

RECURSIVE SortByStart(_, _)
\* ORDER BY start_timestamp, rows in id order
SortByStart(rows, ids) ==
    IF ids = {} THEN <<>>
    ELSE LET m == CHOOSE x \in ids :
                    \A y \in ids : \/ rows[x].start_timestamp < rows[y].start_timestamp
                                   \/ (rows[x].start_timestamp = rows[y].start_timestamp /\ x <= y)
         IN <<CalendarEvent_from_row(m, rows[m])>> \o SortByStart(rows, ids \ {m})

\* CalendarManager.get_upcoming: start_timestamp BETWEEN now AND now + hours_ahead
get_upcoming(rows, t, hours_ahead) ==
    SortByStart(rows, {i \in 1..Len(rows) :
                         /\ t <= rows[i].start_timestamp
                         /\ rows[i].start_timestamp <= t + hours_ahead})

\* CalendarManager.get_needing_reminder: the events of the next hour that need
\* their reminder now
get_needing_reminder(rows, t) ==
    SelectSeq(get_upcoming(rows, t, NEEDING_REMINDER_HOURS_AHEAD),
              LAMBDA e : needs_reminder(e, t))

\* f"cal_{evt.id}_{int(evt.start_timestamp)}"
cal_notify_key(e) == <<"cal", e.id, e.start_timestamp>>

RECURSIVE ScanCalendar(_, _)
\* the loop of _check_calendar over the events get_needing_reminder returned
ScanCalendar(evts, c) ==
    IF evts = <<>> THEN c
    ELSE LET e == Head(evts)
         IN IF cal_notify_key(e) \in c.notified_ids
            THEN ScanCalendar(Tail(evts), c)
            ELSE ScanCalendar(Tail(evts),
                    [c EXCEPT !.notified_ids = @ \cup {cal_notify_key(e)},
                              !.notifications = emit(@, [type |-> "calendar", event |-> e.id]),
                              !.emitted[e.id] = @ + 1])

InitCal ==
    [events |-> <<>>, notified_ids |-> {}, notifications |-> <<>>,
     emitted |-> [i \in 1..MaxEvents |-> 0], op |-> "init", checked |-> FALSE]

\* the reminder_minutes an event is created with: none, 15 minutes, an hour,
\* two hours
ReminderMinutes == {0, 1, 4, 8}

\* CalendarManager.add_event, for an event that starts in a quarter of an
\* hour or in an hour and a quarter
CalAddEvent ==
    /\ Len(cal.events) < MaxEvents
    /\ \E start \in {now + 1, now + 5}, reminder_minutes \in ReminderMinutes :
        cal' = [cal EXCEPT !.events = Append(@, CalendarRow(start, reminder_minutes)),
                           !.op = "add_event"]
    /\ UNCHANGED <<now, notCal>>

\* one _tick of the running scheduler: _check_calendar; when the query raises
\* the check is over
CalTick ==
    /\ \E query_raises \in BOOLEAN :
        cal' = IF query_raises THEN [cal EXCEPT !.op = "tick", !.checked = FALSE]
               ELSE [ScanCalendar(get_needing_reminder(cal.events, now), cal)
                        EXCEPT !.op = "tick", !.checked = TRUE]
    /\ UNCHANGED <<now, notCal>>

\* a quarter of an hour passes
CalAdvanceTime ==
    /\ now < MaxCalTime
    /\ now' = now + 1
    /\ cal' = [cal EXCEPT !.op = "time"]
    /\ UNCHANGED notCal

NextCal ==
    \/ CalAddEvent
    \/ CalTick
    \/ CalAdvanceTime

----------------------------------------------------------------------------
(* PsychoAgent across sessions: start, turns, stop with or without
   reflection.  Sessions follow one another on one database and one graph
   file; an interaction is kept as the id of the session that wrote it, the
   table in the order of the timestamps. *)

\* the node map and the edge list of the graph file
GraphFile(data) == [nodes |-> data.nodes, edges |-> data.edges]

\* the files KnowledgeGraph.save can write for a graph value
Saved(G) == {GraphFile(save(g)) : g \in DiGraphs(G)}

RECURSIVE Reverse(_)
Reverse(q) == IF q = <<>> THEN <<>> ELSE Reverse(Tail(q)) \o <<Head(q)>>

\* LongTermMemory.get_recent_interactions without a domain:
\* SELECT ... FROM interactions ORDER BY timestamp DESC LIMIT ?
get_recent_interactions(table, limit) ==
    Reverse(SubSeq(table, Max2(1, Len(table) - limit + 1), Len(table)))

\* _extract_and_evolve saves when integrate added a node or a fact
integrate_saves(G, result) ==
    /\ ~is_empty(result)
    /\ LET s1 == IntegrateEntities(G, result.entities, 1, <<>>)
           s2 == IntegrateEdges(s1.g, result.edges, s1.ids)
           s3 == IntegrateLabels(s2, result.facts, "fact", NoType, 6000, CONFIDENCE_CONSISTENT)
       IN Len(s1.g.nodes) > Len(G.nodes) \/ Len(s3.nodes) > Len(s2.nodes)

\* what the extraction of a turn can return
SessionExtractions ==
    {ExtractionResult(<<>>, <<>>, <<>>, <<>>, <<>>, <<>>),
     ExtractionResult(<<Concept("knowledge graph")>>, <<>>, <<>>, <<>>, <<>>, <<>>)}

NoReflection == [session_id |-> 0, fetched |-> <<>>, message_count |-> 0]

InitSession ==
    [id |-> 0, started |-> FALSE, interactions |-> <<>>,
     disk |-> [nodes |-> <<>>, edges |-> <<>>],
     op |-> "init", path |-> "none", journal |-> NoReflection]

\* a new PsychoAgent is constructed and started: a new session id, and the
\* graph file loaded into an empty graph
SessionStart ==
    /\ ~session.started
    /\ session.id < MaxSessions
    /\ LET loaded == load(session.disk)
       IN /\ nodes' = [i \in 1..Len(loaded.nodes) |-> loaded.nodes[i].data]
          /\ edges' = {loaded.adj[i] : i \in 1..Len(loaded.adj)}
    /\ session' = [session EXCEPT !.id = @ + 1, !.started = TRUE, !.op = "start",
                                  !.path = "none"]
    /\ UNCHANGED <<ops, notSession>>

\* one turn of the running session: save_interaction, then _extract_and_evolve
SessionTurn ==
    /\ session.started
    /\ Len(session.interactions) < MaxInteractions
    /\ \E result \in SessionExtractions :
        LET G == integrate(Cur, result)
        IN /\ is_empty(result) \/ ops < MaxSessionOps
           /\ nodes' = G.nodes
           /\ edges' = G.edges
           /\ ops' = IF is_empty(result) THEN ops ELSE ops + 1
           /\ \E file \in Saved(G) :
                session' = [session EXCEPT
                               !.interactions = Append(@, session.id),
                               !.disk = IF integrate_saves(Cur, result) THEN file ELSE @,
                               !.op = "turn", !.path = "none"]
    /\ UNCHANGED notSession

\* ReflectionEngine.run as stop awaits it: [g |-> graph after, saved |-> whether
\* the graph was saved, journal |-> what the journal got]
ReflectionOutcomes(G, session_id, table) ==
    LET interactions == get_recent_interactions(table, REFLECTION_LIMIT)
        written == [session_id |-> session_id, fetched |-> interactions,
                    message_count |-> Len(interactions)]
    IN IF interactions = <<>>
       THEN {[path |-> "no_interactions", g |-> G, saved |-> FALSE, journal |-> NoReflection]}
       ELSE {[path |-> "no_data", g |-> G, saved |-> FALSE, journal |-> NoReflection]}
            \cup {[path |-> "raises", g |-> apply_graph_updates(G, d), saved |-> TRUE,
                    journal |-> NoReflection] : d \in Reflections}
            \cup {[path |-> "completes", g |-> run_full_maintenance(apply_graph_updates(G, d)),
                    saved |-> TRUE, journal |-> written] : d \in Reflections}

\* PsychoAgent.stop
SessionStop ==
    /\ session.started
    /\ \E run_reflection \in BOOLEAN :
        \E r \in IF run_reflection
                 THEN ReflectionOutcomes(Cur, session.id, session.interactions)
                 ELSE {[path |-> "no_reflection", g |-> Cur, saved |-> TRUE,
                        journal |-> NoReflection]} :
            /\ nodes' = r.g.nodes
            /\ edges' = r.g.edges
            /\ \E file \in Saved(r.g) :
                 session' = [session EXCEPT !.started = FALSE, !.op = "stop",
                                            !.path = r.path,
                                            !.disk = IF r.saved THEN file ELSE @,
                                            !.journal = r.journal]
    /\ UNCHANGED <<ops, notSession>>

NextSession ==
    \/ SessionStart
    \/ SessionTurn
    \/ SessionStop

----------------------------------------------------------------------------
(* Specifications *)

\* the state after construction: an empty graph, no turn, empty stores
Init ==
    /\ nodes = <<>>
    /\ edges = {}
    /\ edgeLog = {}
    /\ now = 0
    /\ ops = 0
    /\ lastOp = [op |-> "init", ret |-> 0]
    /\ ingest = [pc |-> "idle", file_node_id |-> 0, active |-> FALSE]
    /\ turn = IdleTurn
    /\ stores = [s \in MemoryStores |-> <<>>]
    /\ tasks = [created |-> <<>>, pending |-> {}]
    /\ reminders = <<>>
    /\ sched = InitSched
    /\ short = ShortTermMemory(MAX_SHORT_TERM_MESSAGES)
    /\ cal = InitCal
    /\ session = InitSession

SpecGraph == Init /\ [][NextGraph]_vars

SpecConf == Init /\ [][NextConf]_vars

SpecLoop == Init /\ [][NextLoop]_vars

SpecSched == Init /\ [][NextSched]_vars
SpecEvict == Init /\ [][NextEvict]_vars

\* the running loop comes back from asyncio.sleep and ticks again, and the
\* query of get_due does not fail for ever
SpecSchedFair ==
    /\ Init /\ [][NextSchedFair]_vars
    /\ WF_vars(TickGetDueOk)
    /\ WF_vars(TickScan)

SpecMerge == Init /\ [][NextMerge]_vars

SpecShort == Init /\ [][NextShort]_vars

SpecCal == Init /\ [][NextCal]_vars

SpecSession == Init /\ [][NextSession]_vars

----------------------------------------------------------------------------
(* Properties of the knowledge graph *)

\* C1: after any sequence of graph operations every node has
\* 0.05 <= confidence <= 0.95 and last_updated >= created_at.
C1_ConfidenceInRange ==
    \A i \in 1..Len(nodes) :
        /\ nodes[i].confidence >= CONF_MIN
        /\ nodes[i].confidence <= CONF_MAX
        /\ nodes[i].last_updated >= nodes[i].created_at

\* C5: no task acts on a node id that another task has invalidated between
\* its check and its write: a chunk of the ingestion never links to a FILE
\* node that was active when the ingestion obtained its id and has been
\* deprecated since.
C5_NoStaleWrite ==
    ~ /\ lastOp.op = "process_chunk"
      /\ lastOp.ret.active
      /\ \E e \in edgeLog :
            /\ e.type = "extracted_from"
            /\ e.target_id = lastOp.ret.file_node_id
            /\ e.tgt_deprecated

\* C6: from any confidence in [0.05, 0.95], three consecutive correct_node
\* calls drive the node below the threshold, and the next
\* run_full_maintenance deprecates it.
C6_PrunedAfterCorrections ==
    (lastOp.op = "run_full_maintenance" /\ lastOp.ret.streak >= 3) => nodes[1].deprecated

\* C7 as stated: the second upsert of the same (label, type) leaves exactly
\* one node, whose confidence is at least 0.02 above the confidence after
\* the first insertion.
C7_SecondUpsertGainsTwoHundredths ==
    (lastOp.op = "upsert_node" /\ lastOp.ret.second) =>
        /\ Len(nodes) = 1
        /\ nodes[1].confidence >= lastOp.ret.before + 200

\* C7 amended: the second upsert leaves exactly one node, whose confidence
\* is min(0.95, c + 0.03) for the confidence c after the first insertion,
\* which is a gain of 0.03 when c <= 0.92.
C7_SecondUpsertGainsUpToCap ==
    (lastOp.op = "upsert_node" /\ lastOp.ret.second) =>
        /\ Len(nodes) = 1
        /\ nodes[1].confidence = Min2(CONF_MAX, lastOp.ret.before + UPSERT_REINFORCE)
        /\ (lastOp.ret.before <= 9200 => nodes[1].confidence = lastOp.ret.before + 300)

\* the node was inserted at 0.5 and has just been upserted a second time
C7_Witness ==
    /\ lastOp.op = "upsert_node"
    /\ lastOp.ret.second
    /\ lastOp.ret.before = 5000
    /\ nodes[1].confidence = 5300

\* C17: after integrate, every relationship of the extraction (each names
\* two entities of the same extraction, so none references an undefined
\* label) is an edge of its type between the nodes its two labels resolve to,
\* whether integrate created those nodes or found them in the graph.
C17_EveryRelationshipInserted ==
    lastOp.op = "integrate" =>
        \A k \in 1..Len(lastOp.ret.edges) :
            LET r == lastOp.ret.edges[k]
                from == lastOp.ret.entities[r.from]
                to == lastOp.ret.entities[r.to]
                src == find_node_by_label(Cur, from.label, from.type)
                tgt == find_node_by_label(Cur, to.label, to.type)
            IN /\ src # 0
               /\ tgt # 0
               /\ \E e \in edges : e.source_id = src /\ e.target_id = tgt /\ e.type = r.type

\* C8: whenever an edge is inserted, both endpoints exist and are
\* non-deprecated at that moment.
C8_EdgesOnlyBetweenActive ==
    \A e \in edgeLog : ~e.src_deprecated /\ ~e.tgt_deprecated

\* C9: get_context_for_query returns no deprecated node, neither as a ranked
\* node nor as the target of a returned edge.
C9_NoDeprecatedInContext ==
    lastOp.op = "get_context_for_query" =>
        \A x \in lastOp.ret :
            /\ ~nodes[x.node].deprecated
            /\ \A t \in x.edges : ~nodes[t].deprecated

\* a query returned a node that has an edge to a deprecated node
C9_Witness ==
    /\ lastOp.op = "get_context_for_query"
    /\ \E x \in lastOp.ret :
          \E e \in edges : e.source_id = x.node /\ nodes[e.target_id].deprecated

----------------------------------------------------------------------------
(* Properties of the turn pipeline *)

C3_ResponseDespiteFailures ==
    turn.pc # "raised"

\* C4: when a stream is cancelled by its consumer, or the LLM stream raises
\* after some tokens, the partial response is written to all four memories
\* exactly once.
C4_PartialWrittenOnce ==
    (/\ turn.mode = "stream"
     /\ turn.tokens >= 1
     /\ turn.cancelled \/ turn.llm_failed
     /\ turn.pc \in {"closed", "returned"}) =>
        \A s \in MemoryStores : Writes(s, turn.id) = 1

\* position of a step in the turn in flight, 0 when it has not happened
StepAt(step) ==
    LET at == {i \in 1..Len(turn.steps) : turn.steps[i] = step}
    IN IF at = {} THEN 0 ELSE CHOOSE i \in at : \A j \in at : i <= j

\* C14: in every turn retrieval and the graph context come before prompt
\* assembly, prompt assembly before the LLM call, and the memory write
\* before the extraction task is created; no extraction task exists for a
\* turn whose memory write has not been made.
C14_StepsInOrder ==
    /\ StepAt("prompt_assembly") > 0 =>
            /\ 0 < StepAt("retrieval") /\ StepAt("retrieval") < StepAt("prompt_assembly")
            /\ 0 < StepAt("graph_context") /\ StepAt("graph_context") < StepAt("prompt_assembly")
    /\ StepAt("llm_call") > 0 =>
            0 < StepAt("prompt_assembly") /\ StepAt("prompt_assembly") < StepAt("llm_call")
    /\ StepAt("create_task") > 0 =>
            0 < StepAt("memory_write") /\ StepAt("memory_write") < StepAt("create_task")
    /\ (turn.id > 0 /\ TasksCreated(turn.id) > 0) =>
            \A s \in MemoryStores : Writes(s, turn.id) >= 1
    /\ (turn.tokens > 0 \/ turn.pc \in {"streaming", "responded"}) => StepAt("llm_call") > 0

\* a processed turn went through all its steps
C14_Witness ==
    /\ turn.mode = "process"
    /\ turn.pc = "returned"
    /\ turn.steps = <<"retrieval", "graph_context", "prompt_assembly", "llm_call",
                      "domain_handler", "memory_write", "create_task">>

\* C15: when the LLM call of process raises, process returns the error
\* text, the turn is written to the memories with the error text as the
\* agent response, and the extraction task is created; only a memory write
\* that raises as well keeps the turn from returning.
C15_LlmFailureStillMemorized ==
    (turn.mode = "process" /\ turn.llm_failed) =>
        /\ turn.pc \in {"responded", "returned", "raised"}
        /\ turn.agent_response = "error_text"
        /\ turn.pc = "returned" =>
                /\ turn.returned = "error_text"
                /\ turn.written = "error_text"
                /\ \A s \in MemoryStores : Writes(s, turn.id) = 1
                /\ TasksCreated(turn.id) = 1
        /\ turn.pc = "raised" => turn.failed = "memory_write"

\* a turn whose LLM call raised has returned
C15_Witness ==
    /\ turn.mode = "process"
    /\ turn.llm_failed
    /\ turn.pc = "returned"
    /\ turn.returned = "error_text"
    /\ TasksCreated(turn.id) = 1

\* C16: when the message of a turn assigns a name, then from the prompt
\* assembly of that turn on a non-deprecated PREFERENCE node agent_name:<name>
\* exists with confidence >= 0.95 and the system prompt uses the new name.
C16_NameTakesEffectThisTurn ==
    (turn.assigned # "" /\ StepAt("prompt_assembly") > 0) =>
        /\ \E i \in 1..Len(nodes) :
                /\ nodes[i].type = "preference"
                /\ nodes[i].label = agent_name_label(turn.assigned)
                /\ ~nodes[i].deprecated
                /\ nodes[i].confidence >= CONF_MAX
        /\ turn.prompt_name = turn.assigned

\* C18: the pending extraction tasks are bounded: when more turns are
\* submitted than the bound, the oldest task is dropped, so the tasks of all
\* the turns submitted are never pending together.
C18_PendingTasksBounded ==
    Cardinality(tasks.pending) < MaxTurns

----------------------------------------------------------------------------
(* Properties of the scheduler *)

\* C10: a reminder that a tick has found due has exactly one "reminder"
\* notification, however many further ticks occur; no reminder ever has two.
C10_NotifiedExactlyOnce ==
    \A id \in 1..Len(reminders) :
        /\ sched.emitted[id] <= 1
        /\ (id \in sched.seen /\ sched.pc = "sleep") => sched.emitted[id] = 1

\* a later tick found a notified reminder due again and passed over it
C10_Witness ==
    \E id \in sched.skipped : sched.emitted[id] = 1 /\ sched.pc = "sleep"

\* C28: a reminder that has a notification gets no other one in any later
\* step: not when its snooze has expired, not when it was rescheduled and is
\* due again, not when its notification has left the deque.
C28_NeverNotifiedAgain ==
    [][\A id \in 1..Len(reminders) :
            sched.emitted[id] >= 1 =>
                /\ sched'.emitted[id] = sched.emitted[id]
                /\ notify_key(id) \in sched'.notified_ids]_vars

\* a rescheduled recurring reminder, snoozed since and the snooze expired,
\* was due again and passed over by a scan when its notification had left
\* the full deque
C28_Witness ==
    \E id \in sched.skipped_evicted :
        /\ sched.emitted[id] = 1
        /\ reminders[id].recurrence = "daily"
        /\ reminders[id].snoozed_until > 0
        /\ is_due(reminders[id], now)
        /\ Len(sched.notifications) = MAX_NOTIFICATIONS
        /\ ~in_recent_notifications(sched, notify_key(id))
        /\ sched.pc = "sleep"

\* a reminder the running scheduler has to notify
Pending(id) ==
    /\ id \in 1..Len(reminders)
    /\ is_due(reminders[id], now)
    /\ sched.running

\* C29: under repeated ticks a reminder that is uncompleted, due and not
\* snoozed gets its notification, unless it is completed or snoozed or the
\* scheduler stopped first; a scan aborted by another reminder's reschedule
\* only delays it.
C29_DueEventuallyNotified ==
    \A id \in 1..MaxFairReminders :
        Pending(id) ~> (sched.emitted[id] >= 1 \/ ~Pending(id))

\* a reminder that an aborted scan did not reach has its notification from
\* a later tick, and is still due
C29_Witness ==
    \E id \in sched.left :
        /\ sched.emitted[id] = 1
        /\ Pending(id)
        /\ \E other \in 1..Len(reminders) :
                other # id /\ reschedule_raises(reminders[other]) /\ sched.emitted[other] = 1

\* C27: every ordered pair of nodes has at most one edge, and upsert_edge
\* for a pair whose edge has another type leaves exactly the new edge there,
\* with its own type, confidence and weight, and the number of edges as it
\* was.
C27_OneEdgePerPair ==
    /\ \A src \in 1..Len(nodes), tgt \in 1..Len(nodes) :
            Cardinality(EdgesAt(Cur, src, tgt)) <= 1
    /\ (lastOp.op = "upsert_edge"
            /\ \E old \in lastOp.ret.before : old.type # lastOp.ret.edge.type)
        => /\ EdgesAt(Cur, lastOp.ret.edge.source_id, lastOp.ret.edge.target_id)
                = {lastOp.ret.edge}
           /\ Cardinality(edges) = lastOp.ret.count

\* upsert_edge has just replaced a reinforced relates_to edge with an is_a
\* edge while the graph had a second edge
C27_Witness ==
    /\ lastOp.op = "upsert_edge"
    /\ lastOp.ret.edge.type = "is_a"
    /\ \E old \in lastOp.ret.before :
            old.type = "relates_to" /\ old.weight > lastOp.ret.edge.weight
    /\ Cardinality(edges) >= 2

\* C26: while the scheduler is stopped no tick runs and nothing is emitted,
\* and there is never more than one periodic task, whatever start and stop
\* calls are made.
C26_NoTickAfterStop ==
    [][/\ ~sched.running =>
            /\ sched'.notifications = sched.notifications
            /\ sched'.emitted = sched.emitted
            /\ sched'.pc = "sleep"
       /\ sched'.task <= 1]_vars

\* stop found the loop between get_due and the scan of a due reminder that
\* had no notification yet, and none has been emitted since
C26_Witness ==
    /\ ~sched.running
    /\ sched.stopped_in = "scan"
    /\ \E id \in 1..Len(reminders) : is_due(reminders[id], now) /\ sched.emitted[id] = 0

\* C13 as stated: correct_node followed at once by confirm_nodes on the same
\* node changes its confidence by -0.4 + 0.2 = -0.2, from any confidence.
C13_NetDeltaMinusTwoTenths ==
    (lastOp.op = "confirm_nodes" /\ lastOp.ret.after_correction) =>
        nodes[1].confidence = lastOp.ret.corrected_from - 2000

\* C13 amended: the net change is -0.2 from a confidence of at least 0.45;
\* from a lower one the correction stops at 0.05 and the confirmation ends
\* at 0.25.
C13_NetDeltaWithFloor ==
    (lastOp.op = "confirm_nodes" /\ lastOp.ret.after_correction) =>
        /\ lastOp.ret.corrected_from >= 4500 =>
                nodes[1].confidence = lastOp.ret.corrected_from - 2000
        /\ lastOp.ret.corrected_from < 4500 =>
                nodes[1].confidence = CONF_MIN + CONFIDENCE_USER_CONFIRM

\* a node at 0.5 was corrected and then confirmed, and is at 0.3
C13_Witness ==
    /\ lastOp.op = "confirm_nodes"
    /\ lastOp.ret.after_correction
    /\ lastOp.ret.corrected_from = 5000
    /\ nodes[1].confidence = 3000

----------------------------------------------------------------------------
(* Properties of merge_nodes *)

InEdges(es, id) == {e \in es : e.target_id = id}
OutEdges(es, id) == {e \in es : e.source_id = id}

----------------------------------------------------------------------------
(* Properties of the short-term buffer *)

\* the buffer after an add at capacity: the turns before without the oldest,
\* in their order, then the new turn; get_messages alternates in that order
DroppedOldest ==
    /\ Len(short.turns) = short.max_turns
    /\ Len(short.turns) >= 1
    /\ short.turns[Len(short.turns)] = Turn(short.added)
    /\ \A i \in 1..(Len(short.turns) - 1) : short.turns[i] = short.before[i + 1]
    /\ \A i \in 1..Len(short.before) : short.before[i] # Turn(short.added)
    /\ LET m == get_messages(short.turns)
       IN /\ Len(m) = 2 * Len(short.turns)
          /\ \A i \in 1..Len(short.turns) :
                /\ m[2 * i - 1] = Message("user", short.turns[i].user)
                /\ m[2 * i] = Message("assistant", short.turns[i].assistant)

\* C12 as stated: with the buffer holding max_turns turns, one more add
\* leaves max_turns turns, the oldest gone, the others in order, the new one
\* last, and get_messages alternating user/assistant in that order.
C12_AddAtCapacityDropsOldest ==
    (short.op = "add" /\ Len(short.before) = short.max_turns) => DroppedOldest

\* C12 amended: the same for a buffer of max_turns >= 1.
C12_AddAtPositiveCapacityDropsOldest ==
    (short.op = "add" /\ Len(short.before) = short.max_turns /\ short.max_turns >= 1)
        => DroppedOldest

\* a buffer of two turns was full and has taken a third
C12_Witness ==
    /\ short.op = "add"
    /\ short.max_turns = 2
    /\ Len(short.before) = 2
    /\ short.turns = <<short.before[2], Turn(short.added)>>

----------------------------------------------------------------------------
(* Properties of persistence, checked under SpecGraph *)

\* C19: saving the graph, loading the file into an empty graph and saving
\* again writes the node map and the edge list the first save wrote,
\* whatever graph operations built the graph.
C19_SaveLoadSaveFixedPoint ==
    lastOp.op = "restart" =>
        /\ lastOp.ret.second.nodes = lastOp.ret.first.nodes
        /\ lastOp.ret.second.edges = lastOp.ret.first.edges

\* a restart of a graph with a deprecated node and the edge a merge left
C19_Witness ==
    /\ lastOp.op = "restart"
    /\ \E i \in 1..Len(lastOp.ret.first.nodes) : lastOp.ret.first.nodes[i].nd.deprecated
    /\ \E i \in 1..Len(lastOp.ret.first.edges) : lastOp.ret.first.edges[i].type = "similar_to"
    /\ lastOp.ret.second.nodes = lastOp.ret.first.nodes
    /\ lastOp.ret.second.edges = lastOp.ret.first.edges

----------------------------------------------------------------------------
(* Properties of upsert_node, checked under SpecMerge *)

\* C20: upsert_node reinforces an existing node of the label and type only
\* when that node is not deprecated and creates a new active node otherwise,
\* so the id it returns is always the id of an active node.
C20_UpsertReturnsActiveNode ==
    lastOp.op = "upsert_node" => ~nodes[lastOp.ret].deprecated

----------------------------------------------------------------------------
(* Properties of the real-time signal handlers, checked under SpecGraph *)

\* C21: on a correction signal the node the handler corrects is the node the
\* last response of the short-term buffer was about, never the node named by
\* the replacement value; when that belief is not in the graph, no
\* confidence changes.
C21_CorrectionDropsDiscussedNode ==
    lastOp.op = "correction_signal" =>
        /\ lastOp.ret.corrected # 0 => lastOp.ret.corrected = lastOp.ret.discussed
        /\ lastOp.ret.discussed = 0 =>
               \A i \in 1..Len(lastOp.ret.before) :
                   nodes[i].confidence = lastOp.ret.before[i].confidence

----------------------------------------------------------------------------
(* Properties of the calendar check, checked under SpecCal *)

\* the reminder window of a row as it was configured
InReminderWindow(row, t) ==
    /\ row.start_timestamp - row.reminder_minutes <= t
    /\ t < row.start_timestamp

\* C22: after a tick whose calendar query succeeded, every event whose
\* configured window start - reminder_minutes <= now < start contains now has
\* had its calendar notification emitted, and no event has had more than one.
C22_CalendarNotifiedInWindow ==
    /\ \A i \in 1..Len(cal.events) : cal.emitted[i] <= 1
    /\ (cal.op = "tick" /\ cal.checked) =>
          \A i \in 1..Len(cal.events) :
              InReminderWindow(cal.events[i], now) => cal.emitted[i] = 1

----------------------------------------------------------------------------
(* Properties of reflection and shutdown, checked under SpecSession *)

\* C23: the journal a reflection writes counts only interactions of the
\* session reflected on: every interaction fetched was written by that
\* session.
C23_ReflectsOwnSessionOnly ==
    \A i \in 1..Len(session.journal.fetched) :
        session.journal.fetched[i] = session.journal.session_id

\* C30: when stop has returned, the graph file holds the graph that was in
\* memory, on every path through stop.
C30_StopPersistsGraph ==
    session.op = "stop" => session.disk \in Saved(Cur)

----------------------------------------------------------------------------
(* Properties of find_and_merge_duplicates, checked under SpecMerge *)

\* C24: in every merge of one pass both nodes are active when merge_nodes is
\* called (not deprecated, not dropped earlier in the pass), of one type and
\* at least 0.92 similar, and the node kept is one of highest confidence.
C24_MergesOnlyActivePairs ==
    lastOp.op = "find_and_merge_duplicates" =>
        \A k \in 1..Len(lastOp.ret) :
            LET c == lastOp.ret[k]
            IN /\ ~c.a_deprecated /\ ~c.b_deprecated
               /\ ~c.a_dropped /\ ~c.b_dropped
               /\ c.a_type = c.b_type
               /\ c.sim >= SIMILARITY_THRESHOLD
               /\ (c.keep_id = c.node_a => c.a_confidence >= c.b_confidence)
               /\ (c.keep_id = c.node_b => c.b_confidence >= c.a_confidence)

----------------------------------------------------------------------------
(* Properties of time decay, checked under SpecConf *)

\* C25: for an active node not accessed for d days, the maintenance runs of
\* those days have removed 0.001 * d of the confidence it had when last
\* accessed (no less than 0.05 is left), and nothing when d is at most 1.
C25_DecayProportionalToIdleDays ==
    (/\ lastOp.op = "run_full_maintenance"
     /\ lastOp.ret.decay_from >= 0
     /\ ~nodes[1].deprecated) =>
        LET d == now - nodes[1].last_accessed
        IN nodes[1].confidence =
              IF d > 1
              THEN Max2(CONF_MIN, lastOp.ret.decay_from - CONFIDENCE_TIME_DECAY * d)
              ELSE lastOp.ret.decay_from

====
